---- MODULE Spec2Model ----
(***************************************************************************)
(* Model of the subscription dispatcher (Destination.onEvent and           *)
(* Destination.onSubscription of the destination kit) and of the FQL       *)
(* subscription parser (parse-fql.ts).                                     *)
(*                                                                         *)
(* JavaScript strings are sequences of one-character strings, so that the  *)
(* parser's string operations (split, replace, endsWith, slice) are        *)
(* computed the way the code computes them.                                *)
(***************************************************************************)
EXTENDS Naturals, Sequences, FiniteSets, TLC

VARIABLES
    settings, event,            \* the arguments of onEvent
    pc,                         \* onEvent's promise: idle, awaiting, fulfilled, rejected
    subscriptions,              \* getSubscriptions(settings)
    destinationSettings,        \* getDestinationSettings(settings)
    subs,                       \* per subscription: the state of its onSubscription call
    stats,                      \* the SubscriptionStats handed to onComplete, in call order
    settled,                    \* subscription indices in the order their promises settled
    returned,                   \* what onEvent's promise settled with
    responses,                  \* Destination.responses
    fql, fqlPc, fqlResult,      \* parseFql: its source (as lexed), its position, its result
    run,                        \* parseFql while it runs: its loops' variables, parse's calls
    request, srvPc,             \* the operations server: the request it handles, its position
    tested,                     \* what testAuthentication's promise settled with
    res                         \* the answer to the request

vars == <<settings, event, pc, subscriptions, destinationSettings, subs, stats,
          settled, returned, responses, fql, fqlPc, fqlResult, run,
          request, srvPc, tested, res>>

dispatchVars == <<settings, event, pc, subscriptions, destinationSettings, subs,
                  stats, settled, returned, responses>>

fqlVars == <<fql, fqlPc, fqlResult, run>>

serverVars == <<request, srvPc, tested, res>>

-----------------------------------------------------------------------------
(* Strings *)

S_event == <<"e", "v", "e", "n", "t">>
S_type == <<"t", "y", "p", "e">>
S_properties == <<"p", "r", "o", "p", "e", "r", "t", "i", "e", "s">>
S_traits == <<"t", "r", "a", "i", "t", "s">>
S_contains == <<"c", "o", "n", "t", "a", "i", "n", "s">>
S_match == <<"m", "a", "t", "c", "h">>
S_true == <<"t", "r", "u", "e">>
S_false == <<"f", "a", "l", "s", "e">>
S_null == <<"n", "u", "l", "l">>
S_eos == <<"e", "o", "s">>
S_and == <<"a", "n", "d">>
S_or == <<"o", "r">>
S_track == <<"t", "r", "a", "c", "k">>
S_identify == <<"i", "d", "e", "n", "t", "i", "f", "y">>
S_videos == <<"v", "i", "d", "e", "o", "s">>
S_login == <<"l", "o", "g", "i", "n">>
S_age == <<"a", "g", "e">>
S_not_contains == <<"n", "o", "t", "_", "c", "o", "n", "t", "a", "i", "n", "s">>
S_starts_with == <<"s", "t", "a", "r", "t", "s", "_", "w", "i", "t", "h">>
S_not_starts_with == <<"n", "o", "t", "_", "s", "t", "a", "r", "t", "s", "_", "w", "i", "t", "h">>
S_ends_with == <<"e", "n", "d", "s", "_", "w", "i", "t", "h">>
S_not_ends_with == <<"n", "o", "t", "_", "e", "n", "d", "s", "_", "w", "i", "t", "h">>
S_exists == <<"e", "x", "i", "s", "t", "s">>
S_not_exists == <<"n", "o", "t", "_", "e", "x", "i", "s", "t", "s">>

Quote == "\""

Quoted(s) == <<Quote>> \o s \o <<Quote>>

StartsWith(s, p) == Len(s) >= Len(p) /\ SubSeq(s, 1, Len(p)) = p

EndsWith(s, p) == Len(s) >= Len(p) /\ SubSeq(s, Len(s) - Len(p) + 1, Len(s)) = p

\* String.prototype.slice(n) for n >= 0
SliceFrom(s, n) == SubSeq(s, n + 1, Len(s))

\* String.prototype.slice(0, -1)
SliceDropLast(s) == SubSeq(s, 1, Len(s) - 1)

\* String.prototype.includes
Includes(s, p) == \E i \in 0..Len(s) : StartsWith(SliceFrom(s, i), p)

\* s.split('.')[0]: the text before the first dot
RECURSIVE SplitDotFirst(_)
SplitDotFirst(s) ==
    IF s = <<>> \/ Head(s) = "." THEN <<>>
    ELSE <<Head(s)>> \o SplitDotFirst(Tail(s))

\* s.replace(/^(properties|traits)\./, '')
StripPrefix(s) ==
    IF StartsWith(s, S_properties \o <<".">>) THEN SliceFrom(s, Len(S_properties) + 1)
    ELSE IF StartsWith(s, S_traits \o <<".">>) THEN SliceFrom(s, Len(S_traits) + 1)
    ELSE s

\* /^(properties|traits)/.test(s)
HasPropertyPrefix(s) == StartsWith(s, S_properties) \/ StartsWith(s, S_traits)

\* Number(text) of a digit string, kept as the canonical decimal text of the number
RECURSIVE NumberOf(_)
NumberOf(s) ==
    IF Len(s) > 1 /\ Head(s) = "0" THEN NumberOf(Tail(s)) ELSE s

-----------------------------------------------------------------------------
(* Tokens and JavaScript values *)

Tok(t, v) == [type |-> t, value |-> v]

\* what Array.prototype.shift and an out-of-range index give
Undefined == [type |-> "undefined", value |-> <<>>]

EosToken == Tok("eos", S_eos)

Shift(tokens) ==
    IF tokens = <<>> THEN [tok |-> Undefined, rest |-> <<>>]
    ELSE [tok |-> Head(tokens), rest |-> Tail(tokens)]

At(tokens, i) == IF i \in 1..Len(tokens) THEN tokens[i] ELSE Undefined

JsString(s) == [t |-> "string", v |-> s]
JsNumber(s) == [t |-> "number", v |-> s]
JsBoolean(s) == [t |-> "boolean", v |-> s]

\* String(x)
ToStr(x) == x.v

Return(v) == [kind |-> "return", value |-> v]
Throw(name, message) == [kind |-> "throw", error |-> [name |-> name, message |-> message]]

tokenToConditionType(tokenStart) ==
    IF tokenStart = S_type THEN "event-type"
    ELSE IF tokenStart = S_event THEN "event"
    ELSE IF tokenStart = S_properties THEN "event-property"
    ELSE IF tokenStart = S_traits THEN "event-property"
    ELSE "undefined"

\* a getTokenValue without its number branch: a number token keeps its raw text
getTokenValueNoNumber(token) ==
    IF token.type = "string" THEN
        LET a == IF token.value # <<>> /\ Head(token.value) = Quote
                 THEN Tail(token.value) ELSE token.value
            b == IF a # <<>> /\ a[Len(a)] = Quote THEN SliceDropLast(a) ELSE a
        IN  JsString(b)
    ELSE IF token.type = "ident" /\ token.value \in {S_true, S_false} THEN
        JsBoolean(token.value)
    ELSE JsString(token.value)

getTokenValue(token) ==
    IF token.type = "string" THEN
        LET a == IF token.value # <<>> /\ Head(token.value) = Quote
                 THEN Tail(token.value) ELSE token.value
            b == IF a # <<>> /\ a[Len(a)] = Quote THEN SliceDropLast(a) ELSE a
        IN  JsString(b)
    ELSE IF token.type = "number" THEN JsNumber(NumberOf(token.value))
    ELSE IF token.type = "ident" /\ token.value \in {S_true, S_false} THEN
        JsBoolean(token.value)
    ELSE JsString(token.value)

\* isFqlFunction(undefined) reads undefined.type, a TypeError
isFqlFunction(token) ==
    token.type = "ident" /\ token.value \in {S_contains, S_match}

-----------------------------------------------------------------------------
(* Conditions *)

\* nodes[0] of an empty node list
UndefinedNode == [type |-> "undefined"]

EventCondition(operator, value) ==
    [type |-> "event", operator |-> operator, value |-> value]

EventTypeCondition(operator, value) ==
    [type |-> "event-type", operator |-> operator, value |-> value]

EventPropertyCondition(name, operator, value) ==
    [type |-> "event-property", name |-> name, operator |-> operator, value |-> value]

\* an event-property condition without a value (exists, not_exists)
EventPropertyExists(name, operator) ==
    [type |-> "event-property", name |-> name, operator |-> operator]

GroupCondition(operator, children) ==
    [type |-> "group", operator |-> operator, children |-> children]

Ok(nodes, tokens) == [kind |-> "ok", nodes |-> nodes, tokens |-> tokens]

\* the two pushes that end both branches of parseFqlFunction
PushFunctionNodes(nodes, nameToken, operator, value) ==
    LET n1 == IF nameToken.value = S_event
              THEN Append(nodes, EventCondition(operator, value))
              ELSE nodes
    IN  IF HasPropertyPrefix(nameToken.value)
        THEN Append(n1, EventPropertyCondition(StripPrefix(nameToken.value), operator, value))
        ELSE n1

\* the second argument of contains()/match() is missing when shift() gave undefined
MissingArgument(token) == token = Undefined

\* a match() that tests the token text for a trailing '*' and not for '*"'
parseFqlFunctionBareStar(name, nodes, tokens, negate) ==
    LET open == Shift(tokens)           \* Skip "(" token
        nm == Shift(open.rest)          \* nameToken
        comma == Shift(nm.rest)         \* Skip "," token
        val == Shift(comma.rest)        \* valueToken
        close == Shift(val.rest)        \* Skip ")" token
        nameToken == nm.tok
        valueToken == val.tok
    IN  IF name = S_contains THEN
            IF MissingArgument(nameToken) THEN Throw("Error", "contains() is missing a 1st argument")
            ELSE IF MissingArgument(valueToken) THEN Throw("Error", "contains() is missing a 2nd argument")
            ELSE Ok(PushFunctionNodes(nodes, nameToken,
                                      IF negate THEN S_not_contains ELSE S_contains,
                                      JsString(ToStr(getTokenValue(valueToken)))),
                    close.rest)
        ELSE IF name = S_match THEN
            IF MissingArgument(nameToken) THEN Throw("Error", "match() is missing a 1st argument")
            ELSE IF MissingArgument(valueToken) THEN Throw("Error", "match() is missing a 2nd argument")
            ELSE IF EndsWith(valueToken.value, <<"*">>) THEN
                Ok(PushFunctionNodes(nodes, nameToken,
                                     IF negate THEN S_not_starts_with ELSE S_starts_with,
                                     JsString(SliceDropLast(ToStr(getTokenValue(valueToken))))),
                   close.rest)
            ELSE
                Ok(PushFunctionNodes(nodes, nameToken,
                                     IF negate THEN S_not_ends_with ELSE S_ends_with,
                                     JsString(SliceFrom(ToStr(getTokenValue(valueToken)), 1))),
                   close.rest)
        ELSE Ok(nodes, tokens)

\* a match() that validates its literal: one without a leading or a trailing
\* wildcard is rejected
parseFqlFunctionStrict(name, nodes, tokens, negate) ==
    LET open == Shift(tokens)           \* Skip "(" token
        nm == Shift(open.rest)          \* nameToken
        comma == Shift(nm.rest)         \* Skip "," token
        val == Shift(comma.rest)        \* valueToken
        close == Shift(val.rest)        \* Skip ")" token
        nameToken == nm.tok
        valueToken == val.tok
    IN  IF name = S_contains THEN
            IF MissingArgument(nameToken) THEN Throw("Error", "contains() is missing a 1st argument")
            ELSE IF MissingArgument(valueToken) THEN Throw("Error", "contains() is missing a 2nd argument")
            ELSE Ok(PushFunctionNodes(nodes, nameToken,
                                      IF negate THEN S_not_contains ELSE S_contains,
                                      JsString(ToStr(getTokenValue(valueToken)))),
                    close.rest)
        ELSE IF name = S_match THEN
            IF MissingArgument(nameToken) THEN Throw("Error", "match() is missing a 1st argument")
            ELSE IF MissingArgument(valueToken) THEN Throw("Error", "match() is missing a 2nd argument")
            ELSE IF EndsWith(valueToken.value, <<"*", Quote>>) THEN
                Ok(PushFunctionNodes(nodes, nameToken,
                                     IF negate THEN S_not_starts_with ELSE S_starts_with,
                                     JsString(SliceDropLast(ToStr(getTokenValue(valueToken))))),
                   close.rest)
            ELSE IF ~StartsWith(valueToken.value, <<Quote, "*">>) THEN
                Throw("Error", "match() needs a leading or a trailing wildcard")
            ELSE
                Ok(PushFunctionNodes(nodes, nameToken,
                                     IF negate THEN S_not_ends_with ELSE S_ends_with,
                                     JsString(SliceFrom(ToStr(getTokenValue(valueToken)), 1))),
                   close.rest)
        ELSE Ok(nodes, tokens)

parseFqlFunction(name, nodes, tokens, negate) ==
    LET open == Shift(tokens)           \* Skip "(" token
        nm == Shift(open.rest)          \* nameToken
        comma == Shift(nm.rest)         \* Skip "," token
        val == Shift(comma.rest)        \* valueToken
        close == Shift(val.rest)        \* Skip ")" token
        nameToken == nm.tok
        valueToken == val.tok
    IN  IF name = S_contains THEN
            IF MissingArgument(nameToken) THEN Throw("Error", "contains() is missing a 1st argument")
            ELSE IF MissingArgument(valueToken) THEN Throw("Error", "contains() is missing a 2nd argument")
            ELSE Ok(PushFunctionNodes(nodes, nameToken,
                                      IF negate THEN S_not_contains ELSE S_contains,
                                      JsString(ToStr(getTokenValue(valueToken)))),
                    close.rest)
        ELSE IF name = S_match THEN
            IF MissingArgument(nameToken) THEN Throw("Error", "match() is missing a 1st argument")
            ELSE IF MissingArgument(valueToken) THEN Throw("Error", "match() is missing a 2nd argument")
            ELSE IF EndsWith(valueToken.value, <<"*", Quote>>) THEN
                Ok(PushFunctionNodes(nodes, nameToken,
                                     IF negate THEN S_not_starts_with ELSE S_starts_with,
                                     JsString(SliceDropLast(ToStr(getTokenValue(valueToken))))),
                   close.rest)
            ELSE
                Ok(PushFunctionNodes(nodes, nameToken,
                                     IF negate THEN S_not_ends_with ELSE S_ends_with,
                                     JsString(SliceFrom(ToStr(getTokenValue(valueToken)), 1))),
                   close.rest)
        ELSE Ok(nodes, tokens)

\* a parse whose null checks compare the operator with '==': `= null` is no sugar
parseComparisonDoubleEquals(token, nodes, tokens) ==
    LET conditionType == tokenToConditionType(SplitDotFirst(token.value))
        op == Shift(tokens)
        val == Shift(op.rest)
        operatorToken == op.tok
        valueToken == val.tok
    IN  IF conditionType = "undefined" THEN Ok(nodes, tokens)
        ELSE IF operatorToken = Undefined THEN Throw("Error", "Operator token is missing")
        ELSE IF valueToken = Undefined THEN Throw("Error", "Value token is missing")
        ELSE IF conditionType = "event" THEN
            Ok(Append(nodes, EventCondition(operatorToken.value,
                                            JsString(ToStr(getTokenValue(valueToken))))),
               val.rest)
        ELSE IF conditionType = "event-type" THEN
            Ok(Append(nodes, EventTypeCondition(operatorToken.value,
                                                JsString(ToStr(getTokenValue(valueToken))))),
               val.rest)
        ELSE IF operatorToken.value = <<"!", "=">> /\ valueToken.value = S_null THEN
            Ok(Append(nodes, EventPropertyExists(StripPrefix(token.value), S_exists)), val.rest)
        ELSE
            Ok(Append(nodes, EventPropertyCondition(StripPrefix(token.value),
                                                    operatorToken.value,
                                                    getTokenValue(valueToken))),
               val.rest)

\* parse, lines 145-195: a comparison led by type, event, properties.x or traits.x
parseComparison(token, nodes, tokens) ==
    LET conditionType == tokenToConditionType(SplitDotFirst(token.value))
        op == Shift(tokens)
        val == Shift(op.rest)
        operatorToken == op.tok
        valueToken == val.tok
    IN  IF conditionType = "undefined" THEN Ok(nodes, tokens)
        ELSE IF operatorToken = Undefined THEN Throw("Error", "Operator token is missing")
        ELSE IF valueToken = Undefined THEN Throw("Error", "Value token is missing")
        ELSE IF conditionType = "event" THEN
            Ok(Append(nodes, EventCondition(operatorToken.value,
                                            JsString(ToStr(getTokenValue(valueToken))))),
               val.rest)
        ELSE IF conditionType = "event-type" THEN
            Ok(Append(nodes, EventTypeCondition(operatorToken.value,
                                                JsString(ToStr(getTokenValue(valueToken))))),
               val.rest)
        ELSE IF operatorToken.value = <<"!", "=">> /\ valueToken.value = S_null THEN
            Ok(Append(nodes, EventPropertyExists(StripPrefix(token.value), S_exists)), val.rest)
        ELSE IF operatorToken.value = <<"=">> /\ valueToken.value = S_null THEN
            Ok(Append(nodes, EventPropertyExists(StripPrefix(token.value), S_not_exists)), val.rest)
        ELSE
            Ok(Append(nodes, EventPropertyCondition(StripPrefix(token.value),
                                                    operatorToken.value,
                                                    getTokenValue(valueToken))),
               val.rest)

\* parse, lines 211-217: shift tokens into groupTokens up to the first parenright
RECURSIVE collectGroup(_, _)
collectGroup(groupTokens, tokens) ==
    LET s == Shift(tokens)
    IN  IF s.tok = Undefined THEN Throw("TypeError", "groupToken is undefined")
        ELSE IF s.tok.type = "parenright" THEN
            [kind |-> "ok", groupTokens |-> groupTokens, tokens |-> s.rest]
        ELSE collectGroup(Append(groupTokens, s.tok), s.rest)

\* parse, lines 141-200: an ident token is a comparison, a function call, or skipped
identStep(token, st) ==
    IF token.type # "ident" THEN st
    ELSE LET c == parseComparison(token, st.nodes, st.tokens)
         IN  IF c.kind = "throw" \/ ~isFqlFunction(token) THEN c
             ELSE parseFqlFunction(token.value, c.nodes, c.tokens, FALSE)

\* parse, lines 202-208: "!" negates the function call that follows it
negationStep(token, st) ==
    IF st.kind = "throw" \/ token.type # "operator" \/ token.value # <<"!">> THEN st
    ELSE IF st.tokens = <<>> THEN Throw("TypeError", "tokens[0] is undefined")
    ELSE IF ~isFqlFunction(st.tokens[1]) THEN st
    ELSE parseFqlFunction(st.tokens[1].value, st.nodes, Tail(st.tokens), TRUE)

\* a parse that wraps whatever it collected: nodes.length > 0 in the place of > 1
parseResultAlwaysGroup(nodes, operator) ==
    IF Len(nodes) > 0 THEN Return(GroupCondition(operator, nodes))
    ELSE Return(UndefinedNode)

\* parse, lines 230-238
parseResult(nodes, operator) ==
    IF Len(nodes) > 1 THEN Return(GroupCondition(operator, nodes))
    ELSE IF nodes = <<>> THEN Return(UndefinedNode)
    ELSE Return(nodes[1])

RECURSIVE parseLoop(_, _, _, _)

\* parse, lines 210-221: the tokens up to the first parenright are parsed on their own
groupStep(token, st) ==
    IF st.kind = "throw" \/ token.type # "parenleft" THEN st
    ELSE LET g == collectGroup(<<>>, st.tokens)
             groupTokens == Append(g.groupTokens, EosToken)
             sub == parseLoop(<<>>, S_and, Head(groupTokens), Tail(groupTokens))
         IN  IF g.kind = "throw" THEN g
             ELSE IF sub.kind = "throw" THEN sub
             ELSE Ok(Append(st.nodes, sub.value), g.tokens)

\* a parse in which the first `or` of a scope stays: a later `and` does not replace it
conditionalStepOrStays(token, operator) ==
    IF token.type = "conditional" /\ operator = S_and THEN token.value ELSE operator

\* parse, lines 223-225: a conditional token becomes the operator of the scope
conditionalStep(token, operator) ==
    IF token.type = "conditional" THEN token.value ELSE operator

\* the while loop of parse from `token` on, lines 140-238
parseLoop(nodes, operator, token, tokens) ==
    IF token = Undefined \/ token.type = "eos" THEN parseResult(nodes, operator)
    ELSE LET st == groupStep(token, negationStep(token, identStep(token, Ok(nodes, tokens))))
         IN  IF st.kind = "throw" THEN st
             ELSE parseLoop(st.nodes, conditionalStep(token, operator),
                            Shift(st.tokens).tok, Shift(st.tokens).rest)

parse(tokens) == parseLoop(<<>>, S_and, Shift(tokens).tok, Shift(tokens).rest)

\* normalize: the loop from `index` on; reading .type of a token past the end throws
RECURSIVE normalizeFrom(_, _, _)
normalizeFrom(tokens, index, normalizedTokens) ==
    IF At(tokens, index) = Undefined THEN Return(normalizedTokens)
    ELSE IF tokens[index].type # "ident" THEN
        normalizeFrom(tokens, index + 1, Append(normalizedTokens, tokens[index]))
    ELSE IF At(tokens, index + 1) = Undefined THEN
        Throw("TypeError", "tokens[index + 1] is undefined")
    ELSE IF tokens[index + 1].type # "dot" THEN
        normalizeFrom(tokens, index + 1, Append(normalizedTokens, tokens[index]))
    ELSE IF At(tokens, index + 2) = Undefined THEN
        Throw("TypeError", "tokens[index + 2] is undefined")
    ELSE IF tokens[index + 2].type # "ident" THEN
        normalizeFrom(tokens, index + 1, Append(normalizedTokens, tokens[index]))
    ELSE
        normalizeFrom(tokens, index + 3,
                      Append(normalizedTokens,
                             Tok("ident", tokens[index].value \o tokens[index + 1].value
                                          \o tokens[index + 2].value)))

normalize(tokens) == normalizeFrom(tokens, 1, <<>>)

\* lex(fql): the lexer is the library @segment/fql; a source string is given by what
\* the lexer makes of it, a token list or a thrown LexError
lex(source) ==
    IF source.lexError THEN Throw("LexError", "lex error") ELSE Return(source.tokens)

\* a parseFql that reads ast?.type: an undefined ast is wrapped like a condition
parseFqlBodyOptionalChaining(source) ==
    LET lexed == lex(source)
    IN  IF lexed.kind = "throw" THEN lexed
        ELSE LET norm == normalize(lexed.value)
             IN  IF norm.kind = "throw" THEN norm
                 ELSE LET ast == parse(norm.value)
                      IN  IF ast.kind = "throw" THEN ast
                          ELSE IF ast.value = UndefinedNode \/ ast.value.type # "group"
                          THEN Return(GroupCondition(S_and, <<ast.value>>))
                          ELSE ast

\* the try block of parseFql, lines 271-281
parseFqlBody(source) ==
    LET lexed == lex(source)
    IN  IF lexed.kind = "throw" THEN lexed
        ELSE LET norm == normalize(lexed.value)
             IN  IF norm.kind = "throw" THEN norm
                 ELSE LET ast == parse(norm.value)
                      IN  IF ast.kind = "throw" THEN ast
                          ELSE IF ast.value = UndefinedNode
                          THEN Throw("TypeError", "ast is undefined")
                          ELSE IF ast.value.type # "group"
                          THEN Return(GroupCondition(S_and, <<ast.value>>))
                          ELSE ast

\* a catch clause that handles the parser's own errors and rethrows the others
parseFqlCatchOwnErrors(outcome) ==
    IF outcome.kind = "throw" /\ outcome.error.name = "Error"
    THEN Return([error |-> outcome.error])
    ELSE outcome

\* the catch clause of parseFql, lines 282-288
parseFqlCatch(outcome) ==
    IF outcome.kind = "throw" THEN Return([error |-> outcome.error]) ELSE outcome

parseFql(source) == parseFqlCatch(parseFqlBody(source))

-----------------------------------------------------------------------------
(* The evaluator: validate(subscription, event) of destination-subscriptions *)

compare(actual, operator, expected) ==
    IF operator = <<"=">> THEN actual = expected
    ELSE IF operator = <<"!", "=">> THEN actual # expected
    ELSE IF operator = S_contains THEN Includes(actual, expected)
    ELSE IF operator = S_not_contains THEN ~Includes(actual, expected)
    ELSE IF operator = S_starts_with THEN StartsWith(actual, expected)
    ELSE IF operator = S_not_starts_with THEN ~StartsWith(actual, expected)
    ELSE IF operator = S_ends_with THEN EndsWith(actual, expected)
    ELSE IF operator = S_not_ends_with THEN ~EndsWith(actual, expected)
    ELSE FALSE

RECURSIVE validate(_, _)
validate(condition, ev) ==
    IF "error" \in DOMAIN condition THEN FALSE
    ELSE IF condition.type = "group" THEN
        IF condition.operator = S_or
        THEN \E i \in 1..Len(condition.children) : validate(condition.children[i], ev)
        ELSE \A i \in 1..Len(condition.children) : validate(condition.children[i], ev)
    ELSE IF condition.type = "event-type" THEN
        compare(ev.type, condition.operator, condition.value.v)
    ELSE IF condition.type = "event" THEN
        compare(ev.event, condition.operator, condition.value.v)
    ELSE IF condition.type = "event-property" THEN
        IF condition.operator = S_exists THEN condition.name \in DOMAIN ev.properties
        ELSE IF condition.operator = S_not_exists THEN condition.name \notin DOMAIN ev.properties
        ELSE /\ condition.name \in DOMAIN ev.properties
             /\ compare(ev.properties[condition.name].v, condition.operator, condition.value.v)
    ELSE FALSE

-----------------------------------------------------------------------------
(* The dispatcher: Destination *)

\* the slugs of destination.actions, registered by the constructor
actions == {"trackCustomer"}

StepResult(output) == [output |-> output]

Null == [null |-> TRUE]
Results(list) == [null |-> FALSE, list |-> list]

getSubscriptions(s) ==
    IF "subscription" \in DOMAIN s THEN Return(<<s.subscription>>)
    ELSE IF "subscriptions" \notin DOMAIN s THEN Return(<<>>)
    ELSE IF s.subscriptions.kind = "string" THEN
        \* JSON.parse(subscriptions)
        IF s.subscriptions.json THEN Return(s.subscriptions.value)
        ELSE Throw("SyntaxError", "Unexpected token in JSON")
    ELSE Return(s.subscriptions.value)

getDestinationSettings(s) ==
    [k \in DOMAIN s \ {"subcription", "subscriptions"} |-> s[k]]

\* onSubscription, line 179-183
subscriptionInput(subscription, ev, dest) ==
    [event |-> ev,
     mapping |-> IF subscription.mapping = "undefined" THEN "{}" ELSE subscription.mapping,
     settings |-> dest]

\* executeAction without the check of the slug: undefined.execute is a TypeError
executeActionUnchecked(actionSlug) ==
    IF actionSlug \notin actions
    THEN Throw("TypeError", "Cannot read properties of undefined")
    ELSE Return("action.execute")

\* executeAction up to the call of action.execute: an unknown slug throws BadRequest
executeAction(actionSlug) ==
    IF actionSlug \notin actions
    THEN Throw("BadRequest", "is not a valid action")
    ELSE Return("action.execute")

\* an onSubscription that catches the failure and reports it as a result
awaitExecuteActionCaught(outcome) ==
    IF outcome.kind = "throw" THEN
        [state |-> "fulfilled", st |-> "pending", isSubscribed |-> TRUE, invoked |-> FALSE,
         error |-> "none", results |-> Results(<<[output |-> outcome.error.name]>>)]
    ELSE
        [state |-> "running", st |-> "pending", isSubscribed |-> TRUE, invoked |-> TRUE,
         error |-> "none", results |-> Null]

\* onSubscription, line 200: a throw of executeAction rejects, a promise is awaited
awaitExecuteAction(outcome) ==
    IF outcome.kind = "throw" THEN
        [state |-> "rejected", st |-> "pending", isSubscribed |-> TRUE, invoked |-> FALSE,
         error |-> outcome.error.name, results |-> Null]
    ELSE
        [state |-> "running", st |-> "pending", isSubscribed |-> TRUE, invoked |-> TRUE,
         error |-> "none", results |-> Null]

\* an onSubscription that counts the early return of an invalid subscription as done
invalidSubscriptionDone ==
    [state |-> "fulfilled", st |-> "done", isSubscribed |-> FALSE, invoked |-> FALSE,
     error |-> "none", results |-> Results(<<StepResult("invalid subscription")>>)]

\* onSubscription, lines 189-192: subscribe is not a string
invalidSubscription ==
    [state |-> "fulfilled", st |-> "pending", isSubscribed |-> FALSE, invoked |-> FALSE,
     error |-> "none", results |-> Results(<<StepResult("invalid subscription")>>)]

\* a non-matching subscription that falls through to the action
notSubscribedFallsThrough ==
    [state |-> "running", st |-> "pending", isSubscribed |-> FALSE, invoked |-> TRUE,
     error |-> "none", results |-> Null]

\* onSubscription, lines 195-198: the event does not match the subscription
notSubscribed ==
    [state |-> "fulfilled", st |-> "pending", isSubscribed |-> FALSE, invoked |-> FALSE,
     error |-> "none", results |-> Results(<<StepResult("not subscribed")>>)]

\* onSubscription, line 194
isSubscribed(subscription, ev) ==
    validate(parseFql(subscription.subscribe.source).value, ev)

\* onSubscription from its call to its first await or its return: state is the
\* promise's state, st the local variable `state`, isSubscribed the local constant
\* of line 194 (FALSE where it is never computed)
onSubscriptionSync(subscription, ev) ==
    IF ~subscription.subscribe.isString THEN invalidSubscription
    ELSE IF ~isSubscribed(subscription, ev) THEN notSubscribed
    ELSE awaitExecuteAction(executeAction(subscription.partnerAction))

\* onSubscription after `await this.executeAction(...)` gave `list`
onSubscriptionResume(sub, list) ==
    [sub EXCEPT !.state = "fulfilled", !.st = "done", !.results = Results(list)]

\* onSubscription when the awaited action.execute rejects
onSubscriptionThrow(sub, name) ==
    [sub EXCEPT !.state = "rejected", !.error = name]

\* an onComplete that is handed the local variable `state` as it is
onCompleteRawState(i, subscription, sub, ev, dest) ==
    [sub |-> i,
     action |-> subscription.partnerAction,
     subscribe |-> subscription.subscribe,
     state |-> sub.st,
     input |-> [event |-> ev,
                mapping |-> IF subscription.mapping = "undefined" THEN "{}"
                            ELSE subscription.mapping,
                settings |-> dest],
     output |-> sub.results]

\* the object the finally block hands to onComplete (duration, a wall-clock reading,
\* is left out; sub, the index of the subscription, is added to tell the calls apart)
onComplete(i, subscription, sub, ev, dest) ==
    [sub |-> i,
     action |-> subscription.partnerAction,
     subscribe |-> subscription.subscribe,
     state |-> IF sub.st # "done" THEN "errored" ELSE "done",
     input |-> subscriptionInput(subscription, ev, dest),
     output |-> sub.results]

\* subscriptions started one after the other, none after the first that failed
promisesSequential(list, ev) ==
    [i \in 1..Len(list) |->
        IF \E j \in 1..(i - 1) : onSubscriptionSync(list[j], ev).state = "rejected"
        THEN [state |-> "notstarted", st |-> "pending", isSubscribed |-> FALSE,
              invoked |-> FALSE, error |-> "none", results |-> Null]
        ELSE onSubscriptionSync(list[i], ev)]

\* subscriptions.map(...): every onSubscription call runs to its first await
promises(list, ev) == [i \in 1..Len(list) |-> onSubscriptionSync(list[i], ev)]

Indices(n) == [i \in 1..n |-> i]

\* Promise.race in the place of Promise.all: settled by the first promise that settles
promiseRace(ps, order) ==
    IF Len(ps) = 0 THEN [state |-> "fulfilled", by |-> 0]
    ELSE IF order = <<>> THEN [state |-> "pending", by |-> 0]
    ELSE IF ps[order[1]].state = "rejected" THEN [state |-> "rejected", by |-> order[1]]
    ELSE [state |-> "fulfilled", by |-> 0]

\* Promise.all over the subscriptions' promises: pending, fulfilled, or rejected
\* by the promise that rejected first
promiseAll(ps, order) ==
    LET IsRejected(i) == ps[i].state = "rejected"
        rejected == SelectSeq(order, IsRejected)
    IN  IF rejected # <<>> THEN [state |-> "rejected", by |-> rejected[1]]
        ELSE IF \A i \in 1..Len(ps) : ps[i].state = "fulfilled"
        THEN [state |-> "fulfilled", by |-> 0]
        ELSE [state |-> "pending", by |-> 0]

\* lodash flatten(results), one level: an array gives its elements, any other value itself
RECURSIVE flattenFrom(_, _)
flattenFrom(ps, i) ==
    IF i > Len(ps) THEN <<>>
    ELSE (IF ps[i].results = Null THEN <<Null>> ELSE ps[i].results.list)
         \o flattenFrom(ps, i + 1)

\* results gathered in the order of completion
RECURSIVE flattenInOrder(_, _)
flattenInOrder(ps, order) ==
    IF order = <<>> THEN <<>>
    ELSE (IF ps[Head(order)].results = Null THEN <<Null>> ELSE ps[Head(order)].results.list)
         \o flattenInOrder(ps, Tail(order))

flattenCompleted(ps) == flattenInOrder(ps, settled)

flatten(ps) == flattenFrom(ps, 1)

-----------------------------------------------------------------------------
(* Inputs *)

MaxSubscriptions == 2

\* the longest subscription list given as a JSON string
MaxJsonSubscriptions == 1

Source(tokens) == [lexError |-> FALSE, tokens |-> tokens]

\* type = "track"
SrcTypeTrack ==
    Source(<<Tok("ident", S_type), Tok("operator", <<"=">>),
             Tok("string", Quoted(S_track)), EosToken>>)

\* type = "identify"
SrcTypeIdentify ==
    Source(<<Tok("ident", S_type), Tok("operator", <<"=">>),
             Tok("string", Quoted(S_identify)), EosToken>>)

\* contains(event)
SrcContainsEvent ==
    Source(<<Tok("ident", S_contains), Tok("parenleft", <<"(">>),
             Tok("ident", S_event), Tok("parenright", <<")">>), EosToken>>)

\* (type = "track"
SrcUnclosed ==
    Source(<<Tok("parenleft", <<"(">>), Tok("ident", S_type), Tok("operator", <<"=">>),
             Tok("string", Quoted(S_track)), EosToken>>)

\* a source the lexer rejects, such as an unterminated string
SrcLexError == [lexError |-> TRUE, tokens |-> <<>>]

Subscribes ==
    {[isString |-> TRUE, source |-> SrcTypeTrack],
     [isString |-> TRUE, source |-> SrcTypeIdentify],
     [isString |-> TRUE, source |-> SrcContainsEvent],
     [isString |-> TRUE, source |-> SrcUnclosed],
     [isString |-> FALSE]}

Subscriptions ==
    [partnerAction : {"trackCustomer", "noSuchAction"},
     subscribe : Subscribes,
     mapping : {"undefined", "{email}"}]

Events ==
    {[type |-> S_track, event |-> S_videos, properties |-> (S_age :> JsNumber(<<"4", "2">>))],
     [type |-> S_identify, event |-> S_login, properties |-> <<>>]}

SubscriptionLists == UNION {[1..n -> Subscriptions] : n \in 0..MaxSubscriptions}

SettingsSet ==
    {[subscriptions |-> [kind |-> "array", json |-> FALSE, value |-> l], apiKey |-> "key"] :
         l \in SubscriptionLists}
    \cup {[subscriptions |-> [kind |-> "string", json |-> TRUE, value |-> l],
           apiKey |-> "key"] :
              l \in {x \in SubscriptionLists : Len(x) <= MaxJsonSubscriptions}}
    \cup {[subscriptions |-> [kind |-> "string", json |-> FALSE, value |-> <<>>],
           apiKey |-> "key"]}
    \cup {[subscription |-> sub, apiKey |-> "key"] : sub \in Subscriptions}
    \cup {[apiKey |-> "key"]}

\* what action.execute can come to: the results of its steps, or a thrown error
ActionResults ==
    {<<StepResult("sent")>>, <<StepResult("mapped"), StepResult("sent")>>}

ActionErrors == {"ValidationError", "HTTPError"}

NoOutcome == [kind |-> "none"]

NoRequest == [route |-> "none"]

\* parseFql is not running
NoRun == [phase |-> "none"]

-----------------------------------------------------------------------------
(* Destination.onEvent *)

Init ==
    /\ settings \in SettingsSet
    /\ event \in Events
    /\ pc = "idle"
    /\ subscriptions = <<>>
    /\ destinationSettings = <<>>
    /\ subs = <<>>
    /\ stats = <<>>
    /\ settled = <<>>
    /\ returned = NoOutcome
    /\ responses = <<>>
    /\ fql = SrcLexError
    /\ fqlPc = "idle"
    /\ fqlResult = NoOutcome
    /\ run = NoRun
    /\ request = NoRequest
    /\ srvPc = "idle"
    /\ tested = NoOutcome
    /\ res = NoOutcome

\* no response: what an action emits when no request was answered
NoResponse == [none |-> TRUE]

\* the 'response' event an action emits while it executes for subscription i: the
\* response to its request, when it sent one that was answered
emitted(i, subscription, outcome) ==
    IF outcome = "ValidationError" THEN NoResponse
    ELSE [sub |-> i, action |-> subscription.partnerAction]

\* the listener partnerAction registers on every action: this.responses.push(response)
onResponse(list, response) ==
    IF response # NoResponse THEN Append(list, response) ELSE list

\* the onComplete calls made while subscriptions.map runs, in call order
syncStats(done, list, ps, ev, dest) ==
    [k \in 1..Len(done) |-> onComplete(done[k], list[done[k]], ps[done[k]], ev, dest)]

\* the subscriptions whose promise is settled when subscriptions.map returns, in order
syncSettled(ps) ==
    LET IsSettled(i) == ps[i].state # "running"
    IN  SelectSeq(Indices(Len(ps)), IsSettled)

\* onEvent, lines 234-238, once getSubscriptions gave `list`
onEventStart(list, ps, dest) ==
    /\ pc' = "awaiting"
    /\ subscriptions' = list
    /\ destinationSettings' = dest
    /\ subs' = ps
    /\ settled' = syncSettled(ps)
    /\ stats' = syncStats(syncSettled(ps), list, ps, event, dest)
    /\ UNCHANGED returned

\* getSubscriptions threw: the async function onEvent rejects its promise
onEventThrow(outcome) ==
    /\ pc' = "rejected"
    /\ returned' = outcome
    /\ UNCHANGED <<subscriptions, destinationSettings, subs, stats, settled>>

onEventBegin(got) ==
    IF got.kind = "throw" THEN onEventThrow(got)
    ELSE onEventStart(got.value, promises(got.value, event), getDestinationSettings(settings))

\* onEvent up to `await Promise.all(promises)`: JavaScript runs it without interruption
OnEvent ==
    /\ pc = "idle"
    /\ onEventBegin(getSubscriptions(settings))
    /\ UNCHANGED <<settings, event, responses, fqlVars, serverVars>>

\* action.execute of subscription i returns: onSubscription resumes, sets state to
\* done, runs its finally block and fulfils its promise
ActionReturns(i, list) ==
    /\ i \in 1..Len(subs)
    /\ subs[i].state = "running"
    /\ LET sub == onSubscriptionResume(subs[i], list)
       IN  /\ subs' = [subs EXCEPT ![i] = sub]
           /\ stats' = Append(stats, onComplete(i, subscriptions[i], sub, event,
                                                destinationSettings))
    /\ settled' = Append(settled, i)
    /\ responses' = onResponse(responses, emitted(i, subscriptions[i], "return"))
    /\ UNCHANGED <<settings, event, pc, subscriptions, destinationSettings, returned, fqlVars, serverVars>>

\* action.execute of subscription i throws: the finally block runs and the promise rejects
ActionThrows(i, name) ==
    /\ i \in 1..Len(subs)
    /\ subs[i].state = "running"
    /\ LET sub == onSubscriptionThrow(subs[i], name)
       IN  /\ subs' = [subs EXCEPT ![i] = sub]
           /\ stats' = Append(stats, onComplete(i, subscriptions[i], sub, event,
                                                destinationSettings))
    /\ settled' = Append(settled, i)
    /\ responses' = onResponse(responses, emitted(i, subscriptions[i], name))
    /\ UNCHANGED <<settings, event, pc, subscriptions, destinationSettings, returned, fqlVars, serverVars>>

\* Promise.all settles and onEvent resumes: it returns flatten(results) or rethrows
OnEventSettle ==
    /\ pc = "awaiting"
    /\ LET all == promiseAll(subs, settled)
       IN  /\ all.state # "pending"
           /\ pc' = all.state
           /\ returned' = IF all.state = "rejected"
                          THEN Throw(subs[all.by].error, "subscription failed")
                          ELSE Return(flatten(subs))
    /\ UNCHANGED <<settings, event, subscriptions, destinationSettings, subs, stats,
                   settled, responses, fqlVars, serverVars>>

Next ==
    \/ OnEvent
    \/ \E i \in 1..MaxSubscriptions + 1, list \in ActionResults : ActionReturns(i, list)
    \/ \E i \in 1..MaxSubscriptions + 1, name \in ActionErrors : ActionThrows(i, name)
    \/ OnEventSettle

Spec == Init /\ [][Next]_vars

-----------------------------------------------------------------------------
(* parseFql on the token lists the lexer can produce *)

MaxTokens == 4

\* the tokens of function calls: contains ( event , "vid" ) !
VocabCall ==
    {Tok("ident", S_contains), Tok("parenleft", <<"(">>), Tok("ident", S_event),
     Tok("comma", <<",">>), Tok("string", Quoted(<<"v", "i", "d">>)),
     Tok("parenright", <<")">>), Tok("operator", <<"!">>)}

\* the tokens of comparisons: type = "track" and ( ) properties . age
VocabCompare ==
    {Tok("ident", S_type), Tok("operator", <<"=">>), Tok("string", Quoted(S_track)),
     Tok("conditional", S_and), Tok("parenleft", <<"(">>), Tok("parenright", <<")">>),
     Tok("ident", S_properties), Tok("dot", <<".">>), Tok("ident", S_age)}

\* the tokens the loops of normalize and parse tell apart: type . ( ) contains or
VocabLoops ==
    {Tok("ident", S_type), Tok("dot", <<".">>), Tok("parenleft", <<"(">>),
     Tok("parenright", <<")">>), Tok("ident", S_contains), Tok("conditional", S_or)}

Themes == {"call", "compare"}

Vocabulary(theme) ==
    IF theme = "call" THEN VocabCall
    ELSE IF theme = "compare" THEN VocabCompare
    ELSE VocabLoops

InitFql ==
    /\ settings = [apiKey |-> "key"]
    /\ event = [type |-> S_track, event |-> S_videos, properties |-> <<>>]
    /\ pc = "idle"
    /\ subscriptions = <<>>
    /\ destinationSettings = <<>>
    /\ subs = <<>>
    /\ stats = <<>>
    /\ settled = <<>>
    /\ returned = NoOutcome
    /\ responses = <<>>
    /\ fql \in {[theme |-> th, lexError |-> FALSE, tokens |-> <<>>] : th \in Themes}
    /\ fqlPc = "lexing"
    /\ fqlResult = NoOutcome
    /\ run = NoRun
    /\ request = NoRequest
    /\ srvPc = "idle"
    /\ tested = NoOutcome
    /\ res = NoOutcome

\* the lexer emits one more token
LexEmit(token) ==
    /\ fqlPc = "lexing"
    /\ Len(fql.tokens) < MaxTokens
    /\ token \in Vocabulary(fql.theme)
    /\ fql' = [fql EXCEPT !.tokens = Append(@, token)]
    /\ UNCHANGED <<fqlPc, fqlResult, run, dispatchVars, serverVars>>

\* the lexer reaches the end of the source and emits eos
LexEnd ==
    /\ fqlPc = "lexing"
    /\ fql' = [fql EXCEPT !.tokens = Append(@, EosToken)]
    /\ fqlPc' = "lexed"
    /\ UNCHANGED <<fqlResult, run, dispatchVars, serverVars>>

\* the lexer throws (an unterminated string, an unexpected character)
LexFail ==
    /\ fqlPc = "lexing"
    /\ fql' = [fql EXCEPT !.lexError = TRUE]
    /\ fqlPc' = "lexed"
    /\ UNCHANGED <<fqlResult, run, dispatchVars, serverVars>>

ParseFql ==
    /\ fqlPc = "lexed"
    /\ fqlResult' = parseFql(fql)
    /\ fqlPc' = "returned"
    /\ UNCHANGED <<fql, run, dispatchVars, serverVars>>

NextFql ==
    \/ \E token \in VocabCall \cup VocabCompare : LexEmit(token)
    \/ LexEnd
    \/ LexFail
    \/ ParseFql

SpecFql == InitFql /\ [][NextFql]_vars

-----------------------------------------------------------------------------
(* parseFql on the sources of well-formed expressions *)

S_city == <<"c", "i", "t", "y">>
S_vid == <<"v", "i", "d">>

\* the most conditions written in one expression
MaxConditions == 3

\* the deepest nesting of parenthesized groups in one expression
MaxDepth == 2

\* the most names after the prefix of a dotted path: properties.city.age has two
MaxPath == 2

\* an expression as it is written: a comparison, a function call, or a scope, the
\* conditions and parenthesized scopes joined by one conditional
Comparison(field, operator, value) ==
    [kind |-> "compare", field |-> field, operator |-> operator, value |-> value]

Call(name, negate, field, literal) ==
    [kind |-> "call", name |-> name, negate |-> negate, field |-> field,
     literal |-> literal]

Scope(operator, children) ==
    [kind |-> "scope", operator |-> operator, children |-> children]

\* the lexer on a dotted path: ident, dot, ident, dot, ident, ...
RECURSIVE PathTokens(_)
PathTokens(field) ==
    IF Len(field) = 1 THEN <<Tok("ident", field[1])>>
    ELSE <<Tok("ident", field[1]), Tok("dot", <<".">>)>> \o PathTokens(Tail(field))

\* the lexer on a comparison or a function call
LeafTokens(leaf) ==
    IF leaf.kind = "compare" THEN
        PathTokens(leaf.field) \o <<Tok("operator", leaf.operator), leaf.value>>
    ELSE
        (IF leaf.negate THEN <<Tok("operator", <<"!">>)>> ELSE <<>>)
        \o <<Tok("ident", leaf.name), Tok("parenleft", <<"(">>)>>
        \o PathTokens(leaf.field)
        \o <<Tok("comma", <<",">>), Tok("string", Quoted(leaf.literal)),
             Tok("parenright", <<")">>)>>

\* the lexer on the items of a scope, a scope among them being parenthesized
RECURSIVE ScopeTokens(_, _)
ScopeTokens(children, operator) ==
    IF children = <<>> THEN <<>>
    ELSE LET first == Head(children)
         IN  (IF first.kind = "scope"
              THEN <<Tok("parenleft", <<"(">>)>>
                   \o ScopeTokens(first.children, first.operator)
                   \o <<Tok("parenright", <<")">>)>>
              ELSE LeafTokens(first))
             \o (IF Len(children) = 1 THEN <<>>
                 ELSE <<Tok("conditional", operator)>>
                      \o ScopeTokens(Tail(children), operator))

\* lex(fql).tokens of the source text of an expression
ExpressionTokens(expr) == Append(ScopeTokens(expr.children, expr.operator), EosToken)

Paths == UNION {[1..n -> {S_age, S_city}] : n \in 1..MaxPath}

Fields ==
    {<<S_type>>, <<S_event>>}
    \cup {<<prefix>> \o path : prefix \in {S_properties, S_traits}, path \in Paths}

\* the operator and value of a comparison: != null, = null, > null, = 42, != "null"
OperatorValuePairs ==
    {<<<<"!", "=">>, Tok("null", S_null)>>, <<<<"=">>, Tok("null", S_null)>>,
     <<<<">">>, Tok("null", S_null)>>, <<<<"=">>, Tok("number", <<"4", "2">>)>>,
     <<<<"!", "=">>, Tok("string", Quoted(S_null))>>}

Comparisons == {Comparison(f, p[1], p[2]) : f \in Fields, p \in OperatorValuePairs}

\* the literals of function calls: vid*, *vid, *vid*, vid, v*d
Literals ==
    {S_vid \o <<"*">>, <<"*">> \o S_vid, <<"*">> \o S_vid \o <<"*">>, S_vid,
     <<"v", "*", "d">>}

Calls ==
    {Call(name, negate, f, l) :
        name \in {S_contains, S_match}, negate \in BOOLEAN,
        f \in {<<S_event>>, <<S_type>>, <<S_properties, S_age>>, <<S_traits, S_age>>},
        l \in Literals}

\* the operator and value of a comparison, one for each kind of value token:
\* = "track", = 042, = true, != false, = other, > null
ValueTokenPairs ==
    {<<<<"=">>, Tok("string", Quoted(S_track))>>,
     <<<<"=">>, Tok("number", <<"0", "4", "2">>)>>,
     <<<<"=">>, Tok("ident", S_true)>>, <<<<"!", "=">>, Tok("ident", S_false)>>,
     <<<<"=">>, Tok("ident", <<"o", "t", "h", "e", "r">>)>>,
     <<<<">">>, Tok("null", S_null)>>}

\* comparisons of each kind, event-type, event and event-property, with each value
ValueComparisons ==
    {Comparison(f, p[1], p[2]) :
        f \in {<<S_type>>, <<S_event>>, <<S_properties, S_age>>, <<S_traits, S_city>>},
        p \in ValueTokenPairs}

\* the conditions written inside groups: type = "track", contains(event, "vid")
GroupLeaves ==
    {Comparison(<<S_type>>, <<"=">>, Tok("string", Quoted(S_track))),
     Call(S_contains, FALSE, <<S_event>>, S_vid)}

\* the innermost of the scopes still open, `open` levels below the given scope
RECURSIVE Innermost(_, _)
Innermost(scope, open) ==
    IF open = 0 THEN scope
    ELSE Innermost(scope.children[Len(scope.children)], open - 1)

\* the scope with one more item written at the end of its innermost open scope
RECURSIVE WriteItem(_, _, _)
WriteItem(scope, open, item) ==
    IF open = 0 THEN Scope(scope.operator, Append(scope.children, item))
    ELSE Scope(scope.operator,
               [scope.children EXCEPT
                   ![Len(scope.children)] = WriteItem(@, open - 1, item)])

\* a scope can end: it holds a condition, and two when its conditional is written
CanEnd(scope) ==
    Len(scope.children) > (IF scope.operator = S_or THEN 1 ELSE 0)

\* a source being written: the expression so far, the number of parentheses still
\* open and of conditions written
Writing(expr, open, conditions) ==
    [expr |-> expr, open |-> open, conditions |-> conditions,
     lexError |-> FALSE, tokens |-> <<>>]

\* the source of one comparison or one function call
LeafSource(leaf) ==
    [expr |-> Scope(S_and, <<leaf>>), open |-> 0, conditions |-> 1,
     lexError |-> FALSE, tokens |-> ExpressionTokens(Scope(S_and, <<leaf>>))]

InitParse ==
    /\ settings = [apiKey |-> "key"]
    /\ event = [type |-> S_track, event |-> S_videos, properties |-> <<>>]
    /\ pc = "idle"
    /\ subscriptions = <<>>
    /\ destinationSettings = <<>>
    /\ subs = <<>>
    /\ stats = <<>>
    /\ settled = <<>>
    /\ returned = NoOutcome
    /\ responses = <<>>
    /\ \/ /\ fql \in {LeafSource(leaf) : leaf \in Comparisons \cup ValueComparisons \cup Calls}
          /\ fqlPc = "lexed"
       \/ /\ fql \in {Writing(Scope(operator, <<>>), 0, 0) : operator \in {S_and, S_or}}
          /\ fqlPc = "writing"
    /\ fqlResult = NoOutcome
    /\ run = NoRun
    /\ request = NoRequest
    /\ srvPc = "idle"
    /\ tested = NoOutcome
    /\ res = NoOutcome

\* one more condition is written into the innermost open scope
WriteCondition(leaf) ==
    /\ fqlPc = "writing"
    /\ fql.conditions < MaxConditions
    /\ fql' = [fql EXCEPT !.expr = WriteItem(@, fql.open, leaf),
                          !.conditions = @ + 1]
    /\ UNCHANGED <<fqlPc, fqlResult, run, dispatchVars, serverVars>>

\* a parenthesis is opened: a scope with its own conditional starts
WriteOpen(operator) ==
    /\ fqlPc = "writing"
    /\ fql.open < MaxDepth
    /\ fql.conditions < MaxConditions
    /\ fql' = [fql EXCEPT !.expr = WriteItem(@, fql.open, Scope(operator, <<>>)),
                          !.open = @ + 1]
    /\ UNCHANGED <<fqlPc, fqlResult, run, dispatchVars, serverVars>>

\* the innermost open parenthesis is closed
WriteClose ==
    /\ fqlPc = "writing"
    /\ fql.open > 0
    /\ CanEnd(Innermost(fql.expr, fql.open))
    /\ fql' = [fql EXCEPT !.open = @ - 1]
    /\ UNCHANGED <<fqlPc, fqlResult, run, dispatchVars, serverVars>>

\* the source is complete and the lexer runs over it
LexSource ==
    /\ fqlPc = "writing"
    /\ fql.open = 0
    /\ CanEnd(fql.expr)
    /\ fql' = [fql EXCEPT !.tokens = ExpressionTokens(fql.expr)]
    /\ fqlPc' = "lexed"
    /\ UNCHANGED <<fqlResult, run, dispatchVars, serverVars>>

NextParse ==
    \/ \E leaf \in GroupLeaves : WriteCondition(leaf)
    \/ \E operator \in {S_and, S_or} : WriteOpen(operator)
    \/ WriteClose
    \/ LexSource
    \/ ParseFql

SpecParse == InitParse /\ [][NextParse]_vars

-----------------------------------------------------------------------------
(* parseFql on scopes whose conditions are joined by any conditionals *)

\* nothing written between two conditions, or after the last one
NoConditional == <<>>

Conditionals == {S_and, S_or, NoConditional}

\* the conditions of a scope with mixed conditionals: type = "track",
\* properties.age = 42, contains(event, "vid")
MixedLeaves ==
    {Comparison(<<S_type>>, <<"=">>, Tok("string", Quoted(S_track))),
     Comparison(<<S_properties, S_age>>, <<"=">>, Tok("number", <<"4", "2">>)),
     Call(S_contains, FALSE, <<S_event>>, S_vid)}

\* a scope as it is written: its conditions, what is written after each of them (a
\* conditional or nothing), and whether the scope stands in one pair of parentheses
Mixed(paren, items, joins) ==
    [paren |-> paren, items |-> items, joins |-> joins,
     lexError |-> FALSE, tokens |-> <<>>]

ConditionalTokens(join) ==
    IF join = NoConditional THEN <<>> ELSE <<Tok("conditional", join)>>

\* the lexer on the conditions of the scope, each followed by what is written after it
RECURSIVE MixedItemTokens(_, _)
MixedItemTokens(items, joins) ==
    IF items = <<>> THEN <<>>
    ELSE LeafTokens(Head(items)) \o ConditionalTokens(Head(joins))
         \o MixedItemTokens(Tail(items), Tail(joins))

\* lex(fql).tokens of the source text of the scope
MixedTokens(source) ==
    (IF source.paren THEN <<Tok("parenleft", <<"(">>)>> ELSE <<>>)
    \o MixedItemTokens(source.items, source.joins)
    \o (IF source.paren THEN <<Tok("parenright", <<")">>)>> ELSE <<>>)
    \o <<EosToken>>

InitMixed ==
    /\ settings = [apiKey |-> "key"]
    /\ event = [type |-> S_track, event |-> S_videos, properties |-> <<>>]
    /\ pc = "idle"
    /\ subscriptions = <<>>
    /\ destinationSettings = <<>>
    /\ subs = <<>>
    /\ stats = <<>>
    /\ settled = <<>>
    /\ returned = NoOutcome
    /\ responses = <<>>
    /\ fql \in {Mixed(paren, <<>>, <<>>) : paren \in BOOLEAN}
    /\ fqlPc = "writing"
    /\ fqlResult = NoOutcome
    /\ run = NoRun
    /\ request = NoRequest
    /\ srvPc = "idle"
    /\ tested = NoOutcome
    /\ res = NoOutcome

\* one more condition is written, and after it a conditional or nothing; a function
\* call is written outside parentheses only
WriteMixed(leaf, join) ==
    /\ fqlPc = "writing"
    /\ "items" \in DOMAIN fql
    /\ Len(fql.items) < MaxConditions
    /\ fql.paren => leaf.kind # "call"
    /\ fql' = [fql EXCEPT !.items = Append(@, leaf), !.joins = Append(@, join)]
    /\ UNCHANGED <<fqlPc, fqlResult, run, dispatchVars, serverVars>>

\* the source is complete and the lexer runs over it
LexMixed ==
    /\ fqlPc = "writing"
    /\ "items" \in DOMAIN fql
    /\ fql.items # <<>>
    /\ fql' = [fql EXCEPT !.tokens = MixedTokens(fql)]
    /\ fqlPc' = "lexed"
    /\ UNCHANGED <<fqlResult, run, dispatchVars, serverVars>>

NextMixed ==
    \/ \E leaf \in MixedLeaves, join \in Conditionals : WriteMixed(leaf, join)
    \/ LexMixed
    \/ ParseFql

SpecMixed == InitMixed /\ [][NextMixed]_vars

-----------------------------------------------------------------------------
(* parseFql one loop iteration at a time *)

\* normalize while its loop runs
Normalizing(tokens, index, normalizedTokens) ==
    [phase |-> "normalize", tokens |-> tokens, index |-> index,
     normalizedTokens |-> normalizedTokens]

\* parse while it runs: the calls of parse that have not returned, the innermost last
Parsing(stack) == [phase |-> "parse", stack |-> stack]

\* one call of parse: its local variables, and where it is: in its while loop
\* ("loop"), in the loop that collects a group ("collect"), or waiting for the
\* parse of a group to return ("call")
Frame(nodes, operator, token, tokens) ==
    [mode |-> "loop", nodes |-> nodes, operator |-> operator, token |-> token,
     tokens |-> tokens, groupToken |-> Undefined, groupTokens |-> <<>>]

\* parse, lines 136-138: the locals before the loop
parseCall(tokens) == Frame(<<>>, S_and, Shift(tokens).tok, Shift(tokens).rest)

\* normalize, lines 245-264: the loop test and one iteration
normalizeIteration(tokens, index, normalizedTokens) ==
    IF At(tokens, index) = Undefined THEN [kind |-> "exit"]
    ELSE IF tokens[index].type # "ident" THEN
        Return(Normalizing(tokens, index + 1, Append(normalizedTokens, tokens[index])))
    ELSE IF At(tokens, index + 1) = Undefined THEN
        Throw("TypeError", "tokens[index + 1] is undefined")
    ELSE IF tokens[index + 1].type # "dot" THEN
        Return(Normalizing(tokens, index + 1, Append(normalizedTokens, tokens[index])))
    ELSE IF At(tokens, index + 2) = Undefined THEN
        Throw("TypeError", "tokens[index + 2] is undefined")
    ELSE IF tokens[index + 2].type # "ident" THEN
        Return(Normalizing(tokens, index + 1, Append(normalizedTokens, tokens[index])))
    ELSE
        Return(Normalizing(tokens, index + 3,
                           Append(normalizedTokens,
                                  Tok("ident", tokens[index].value \o tokens[index + 1].value
                                               \o tokens[index + 2].value))))

\* a parse loop that goes on to its next iteration right after a conditional token,
\* before the shift that ends the iteration
parseIterationContinue(f) ==
    LET st == negationStep(f.token, identStep(f.token, Ok(f.nodes, f.tokens)))
    IN  IF st.kind = "throw" THEN st
        ELSE IF f.token.type = "parenleft" THEN
            Return([f EXCEPT !.mode = "collect", !.nodes = st.nodes,
                             !.groupToken = Shift(st.tokens).tok,
                             !.tokens = Shift(st.tokens).rest])
        ELSE IF f.token.type = "conditional" THEN
            Return([f EXCEPT !.operator = f.token.value])
        ELSE
            Return([f EXCEPT !.nodes = st.nodes,
                             !.token = Shift(st.tokens).tok,
                             !.tokens = Shift(st.tokens).rest])

\* parse, lines 141-227: one iteration of the while loop, up to the shift that ends
\* it or, at a parenleft, up to the first shift of the group (line 212)
parseIteration(f) ==
    LET st == negationStep(f.token, identStep(f.token, Ok(f.nodes, f.tokens)))
    IN  IF st.kind = "throw" THEN st
        ELSE IF f.token.type = "parenleft" THEN
            Return([f EXCEPT !.mode = "collect", !.nodes = st.nodes,
                             !.groupToken = Shift(st.tokens).tok,
                             !.tokens = Shift(st.tokens).rest])
        ELSE
            Return([f EXCEPT !.nodes = st.nodes,
                             !.operator = conditionalStep(f.token, f.operator),
                             !.token = Shift(st.tokens).tok,
                             !.tokens = Shift(st.tokens).rest])

\* parse, lines 214-220: the test of the group loop and one iteration, or, at the
\* parenright, the call of parse on the collected tokens
collectIteration(f) ==
    IF f.groupToken = Undefined THEN Throw("TypeError", "groupToken is undefined")
    ELSE IF f.groupToken.type = "parenright" THEN
        [kind |-> "call",
         frame |-> [f EXCEPT !.mode = "call", !.groupToken = Undefined, !.groupTokens = <<>>],
         callee |-> parseCall(Append(f.groupTokens, EosToken))]
    ELSE
        [kind |-> "next",
         frame |-> [f EXCEPT !.groupTokens = Append(@, f.groupToken),
                             !.groupToken = Shift(f.tokens).tok,
                             !.tokens = Shift(f.tokens).rest]]

\* parse, lines 220-227: the parse of the group has returned `value`; it is pushed
\* and the iteration ends with its shift
parseResume(f, value) ==
    [f EXCEPT !.mode = "loop", !.nodes = Append(@, value),
              !.operator = conditionalStep(f.token, f.operator),
              !.token = Shift(f.tokens).tok,
              !.tokens = Shift(f.tokens).rest]

\* parseFql, lines 273-281: what is done with the ast parse returned
parseFqlReturn(ast) ==
    IF ast = UndefinedNode THEN Throw("TypeError", "ast is undefined")
    ELSE IF ast.type # "group" THEN Return(GroupCondition(S_and, <<ast>>))
    ELSE Return(ast)

\* parseFql returns: a value, or through its catch clause
Finish(outcome) ==
    /\ fqlResult' = parseFqlCatch(outcome)
    /\ fqlPc' = "returned"
    /\ run' = NoRun

\* parseFql goes on
Continue(next) ==
    /\ run' = next
    /\ UNCHANGED <<fqlPc, fqlResult>>

InitSteps ==
    /\ settings = [apiKey |-> "key"]
    /\ event = [type |-> S_track, event |-> S_videos, properties |-> <<>>]
    /\ pc = "idle"
    /\ subscriptions = <<>>
    /\ destinationSettings = <<>>
    /\ subs = <<>>
    /\ stats = <<>>
    /\ settled = <<>>
    /\ returned = NoOutcome
    /\ responses = <<>>
    /\ fql = [theme |-> "loops", lexError |-> FALSE, tokens |-> <<>>]
    /\ fqlPc = "lexing"
    /\ fqlResult = NoOutcome
    /\ run = NoRun
    /\ request = NoRequest
    /\ srvPc = "idle"
    /\ tested = NoOutcome
    /\ res = NoOutcome

\* a token stream that ends without eos
LexStop ==
    /\ fqlPc = "lexing"
    /\ fqlPc' = "lexed"
    /\ UNCHANGED <<fql, fqlResult, run, dispatchVars, serverVars>>

\* parseFql is called: lex(fql), then normalize starts on its tokens
CallParseFql ==
    /\ fqlPc = "lexed"
    /\ IF lex(fql).kind = "throw" THEN Finish(lex(fql))
       ELSE /\ run' = Normalizing(lex(fql).value, 1, <<>>)
            /\ fqlPc' = "running"
            /\ UNCHANGED fqlResult
    /\ UNCHANGED <<fql, dispatchVars, serverVars>>

\* one iteration of normalize's loop; when the loop ends, parse is called
NormalizeStep ==
    /\ fqlPc = "running"
    /\ run.phase = "normalize"
    /\ LET it == normalizeIteration(run.tokens, run.index, run.normalizedTokens)
       IN  IF it.kind = "throw" THEN Finish(it)
           ELSE IF it.kind = "exit"
           THEN Continue(Parsing(<<parseCall(run.normalizedTokens)>>))
           ELSE Continue(it.value)
    /\ UNCHANGED <<fql, dispatchVars, serverVars>>

\* one iteration of the while loop of the innermost parse; when the loop ends, that
\* parse returns to the parse that called it, or to parseFql
ParseStep ==
    /\ fqlPc = "running"
    /\ run.phase = "parse"
    /\ run.stack[Len(run.stack)].mode = "loop"
    /\ LET d == Len(run.stack)
           f == run.stack[d]
           ast == parseResult(f.nodes, f.operator).value
           it == parseIteration(f)
       IN  IF f.token = Undefined \/ f.token.type = "eos" THEN
               IF d = 1 THEN Finish(parseFqlReturn(ast))
               ELSE Continue(Parsing(Append(SubSeq(run.stack, 1, d - 2),
                                            parseResume(run.stack[d - 1], ast))))
           ELSE IF it.kind = "throw" THEN Finish(it)
           ELSE Continue(Parsing([run.stack EXCEPT ![d] = it.value]))
    /\ UNCHANGED <<fql, dispatchVars, serverVars>>

\* one iteration of the loop that collects the tokens of a group; at the parenright
\* parse is called on them
CollectStep ==
    /\ fqlPc = "running"
    /\ run.phase = "parse"
    /\ run.stack[Len(run.stack)].mode = "collect"
    /\ LET d == Len(run.stack)
           it == collectIteration(run.stack[d])
       IN  IF it.kind = "throw" THEN Finish(it)
           ELSE IF it.kind = "call"
           THEN Continue(Parsing(Append([run.stack EXCEPT ![d] = it.frame], it.callee)))
           ELSE Continue(Parsing([run.stack EXCEPT ![d] = it.frame]))
    /\ UNCHANGED <<fql, dispatchVars, serverVars>>

\* the statements of parseFql, from its call to its return
RunParseFql == CallParseFql \/ NormalizeStep \/ ParseStep \/ CollectStep

NextSteps ==
    \/ \E token \in VocabLoops : LexEmit(token)
    \/ LexEnd
    \/ LexStop
    \/ CallParseFql
    \/ NormalizeStep
    \/ ParseStep
    \/ CollectStep

\* the code of parseFql is synchronous: once called it runs on to its next statement
SpecSteps == InitSteps /\ [][NextSteps]_vars /\ WF_vars(RunParseFql)

-----------------------------------------------------------------------------
(* The credential test and the operations server: /test-credentials, /autocomplete *)

\* what the error handler behind asyncHandler answers when a handler throws: the
\* request fails, with the status of the error or 500
Failed(error) == [status |-> IF error = "NotFound" THEN 404 ELSE 500, error |-> error]

Json(status, body) == [status |-> status, body |-> body]

Error(name, message) == [name |-> name, message |-> message]

\* the AggregateAjvError of a settings object without its apiKey: it iterates over
\* one error per field
AggregateAjvError ==
    [name |-> "AggregateAjvError", message |-> "The root value is missing the required field 'apiKey'.",
     errors |-> <<[path |-> <<"$", ".", "a", "p", "i", "K", "e", "y">>,
                   message |-> "The root value is missing the required field 'apiKey'."]>>]

\* s.replace(p, ''): the first occurrence of p taken out of s
RECURSIVE ReplaceFirst(_, _)
ReplaceFirst(s, p) ==
    IF Len(s) < Len(p) THEN s
    ELSE IF StartsWith(s, p) THEN SliceFrom(s, Len(p))
    ELSE <<Head(s)>> \o ReplaceFirst(Tail(s), p)

\* the destinations getDestinationByIdOrSlug can give: whether the definition has a
\* settings schema and a testAuthentication, and what its extendRequest is
Destinations ==
    [settingsSchema : BOOLEAN, testAuthentication : BOOLEAN,
     extendRequest : {"undefined", "function", "throws"}]

\* how the calls testAuthentication awaits come out for the given settings:
\* the Validate step, and the destination's testAuthentication request
ValidateOutcomes == {"valid", "invalid"}
RequestOutcomes == {"resolves", "rejects", "timeout"}

\* what the destination's testAuthentication request rejects with
RequestError(call) ==
    IF call = "rejects" THEN Error("HTTPError", "Response code 401 (Unauthorized)")
    ELSE Error("TimeoutError", "Timeout awaiting 'request' for 3000ms")

\* what a request extension throws when it reads a setting that is not there
ExtensionError == Error("TypeError", "Cannot read property 'apiKey' of undefined")

\* a try block that lets the error of the request through
testAuthenticationCallUncaught(call) ==
    IF call = "resolves" THEN Return("undefined")
    ELSE [kind |-> "throw", error |-> RequestError(call)]

\* testAuthentication, lines 132-136: the awaited request inside try/catch
testAuthenticationCall(call) ==
    IF call = "resolves" THEN Return("undefined")
    ELSE [kind |-> "throw", error |-> Error("Error", "Credentials are invalid")]

\* testAuthentication, lines 119-136: after the settings are validated
testAuthenticationRequest(destination, call) ==
    IF ~destination.testAuthentication THEN Return("undefined")
    ELSE IF destination.extendRequest = "throws" THEN
        [kind |-> "throw", error |-> ExtensionError]
    ELSE testAuthenticationCall(call)

\* Destination.testAuthentication(settings): what its promise settles with
testAuthentication(destination, validation, call) ==
    IF destination.settingsSchema /\ validation = "invalid"
    THEN [kind |-> "throw", error |-> AggregateAjvError]
    ELSE testAuthenticationRequest(destination, call)

\* /test-credentials, lines 130-145: the fields of an AggregateAjvError by name
fieldsOf(error) ==
    [name \in {ReplaceFirst(error.errors[k].path, <<"$", ".">>) : k \in 1..Len(error.errors)} |->
        (CHOOSE k \in 1..Len(error.errors) :
            ReplaceFirst(error.errors[k].path, <<"$", ".">>) = name
            /\ \A j \in (k + 1)..Len(error.errors) :
                  ReplaceFirst(error.errors[j].path, <<"$", ".">>) # name) ]

\* /test-credentials, lines 126-152: the answer to what testAuthentication settled with
testCredentialsResponse(result) ==
    IF result.kind = "return" THEN Json(200, [ok |-> TRUE])
    ELSE IF result.error.name = "AggregateAjvError" THEN
        Json(200, [ok |-> FALSE, error |-> "Credentials are invalid",
                   fields |-> [name \in DOMAIN fieldsOf(result.error) |->
                                  result.error.errors[fieldsOf(result.error)[name]].message]])
    ELSE Json(200, [ok |-> FALSE, error |-> result.error.message])

\* the requests POST /test-credentials can get, with the outcomes of what it awaits
TestCredentialsRequests ==
    [route : {"/test-credentials"}, settingsIsObject : BOOLEAN, found : BOOLEAN,
     destination : Destinations, validation : ValidateOutcomes, call : RequestOutcomes]

\* a result that is undefined, and not an object
UndefinedResult == [object |-> FALSE]

\* what executeDynamicField can come to: a throw, a rejection, or a result that may
\* lack data, pagination or pagination.nextPage, or be undefined
DynamicFieldOutcomes ==
    {[kind |-> "throw"], [kind |-> "reject"], [kind |-> "return", result |-> UndefinedResult]}
    \cup {[kind |-> "return", result |-> r] :
             r \in {[object |-> TRUE, data |-> <<"a", "b">>,
                     pagination |-> [object |-> TRUE, nextPage |-> "2"]],
                    [object |-> TRUE, data |-> <<"a", "b">>, pagination |-> [object |-> TRUE]],
                    [object |-> TRUE, data |-> <<"a", "b">>],
                    [object |-> TRUE, pagination |-> [object |-> TRUE, nextPage |-> "2"]],
                    [object |-> TRUE]}}

\* the requests POST /autocomplete can get, with the outcomes of what it awaits
AutocompleteRequests ==
    [route : {"/autocomplete"}, fieldIsString : BOOLEAN,
     settings : {"body", "fetched", "fetch fails"}, found : BOOLEAN,
     actionKnown : BOOLEAN, dynamicField : DynamicFieldOutcomes]

\* res.json of an object: JSON.stringify leaves out the keys whose value is undefined
JsonOmitUndefined(keys, object) == [k \in keys \cap DOMAIN object |-> object[k]]

\* /autocomplete, lines 93-98: the body built from the result; reading a property
\* of undefined throws
autocompleteBody(result) ==
    IF ~result.object THEN [kind |-> "throw"]
    ELSE IF "pagination" \notin DOMAIN result THEN [kind |-> "throw"]
    ELSE [kind |-> "return",
          value |-> JsonOmitUndefined({"data"}, result)
                    @@ [pagination |-> JsonOmitUndefined({"nextPage"}, result.pagination)]]

EmptyResultSet == Json(200, [data |-> <<>>, pagination |-> <<>>])

\* a handler without the catch block: the error goes to asyncHandler
autocompleteTryUncaught(outcome, body) ==
    IF outcome.kind # "return" THEN Failed("Error")
    ELSE IF body.kind = "throw" THEN Failed("TypeError")
    ELSE Json(200, body.value)

\* /autocomplete, lines 86-105: the try block and its catch
autocompleteTry(outcome, body) ==
    IF outcome.kind # "return" \/ body.kind = "throw" THEN EmptyResultSet
    ELSE Json(200, body.value)

\* /autocomplete, lines 58-105
autocomplete(req) ==
    IF ~req.fieldIsString THEN Failed("ArgumentError")
    ELSE IF req.settings = "fetch fails" THEN Failed("NotFound")
    ELSE IF ~req.found THEN EmptyResultSet
    ELSE IF ~req.actionKnown THEN Failed("ArgumentError")
    ELSE autocompleteTry(req.dynamicField,
                         IF req.dynamicField.kind = "return"
                         THEN autocompleteBody(req.dynamicField.result)
                         ELSE [kind |-> "throw"])

InitServer ==
    /\ settings = [apiKey |-> "key"]
    /\ event = [type |-> S_track, event |-> S_videos, properties |-> <<>>]
    /\ pc = "idle"
    /\ subscriptions = <<>>
    /\ destinationSettings = <<>>
    /\ subs = <<>>
    /\ stats = <<>>
    /\ settled = <<>>
    /\ returned = NoOutcome
    /\ responses = <<>>
    /\ fql = SrcLexError
    /\ fqlPc = "idle"
    /\ fqlResult = NoOutcome
    /\ run = NoRun
    /\ request \in TestCredentialsRequests \cup AutocompleteRequests
    /\ srvPc = "received"
    /\ tested = NoOutcome
    /\ res = NoOutcome

\* POST /test-credentials up to `await destinationDefinition.testAuthentication(settings)`
PostTestCredentials ==
    /\ srvPc = "received"
    /\ request.route = "/test-credentials"
    /\ IF ~request.settingsIsObject THEN
           /\ res' = Failed("ArgumentError")
           /\ srvPc' = "responded"
           /\ UNCHANGED tested
       ELSE IF ~request.found THEN
           /\ res' = Json(404, [ok |-> FALSE, error |-> "No destination found"])
           /\ srvPc' = "responded"
           /\ UNCHANGED tested
       ELSE
           /\ tested' = testAuthentication(request.destination, request.validation,
                                           request.call)
           /\ srvPc' = "tested"
           /\ UNCHANGED res
    /\ UNCHANGED <<request, dispatchVars, fqlVars>>

\* POST /test-credentials once testAuthentication has settled
TestCredentialsRespond ==
    /\ srvPc = "tested"
    /\ res' = testCredentialsResponse(tested)
    /\ srvPc' = "responded"
    /\ UNCHANGED <<request, tested, dispatchVars, fqlVars>>

PostAutocomplete ==
    /\ srvPc = "received"
    /\ request.route = "/autocomplete"
    /\ res' = autocomplete(request)
    /\ srvPc' = "responded"
    /\ UNCHANGED <<request, tested, dispatchVars, fqlVars>>

NextServer ==
    \/ PostTestCredentials
    \/ TestCredentialsRespond
    \/ PostAutocomplete

SpecServer == InitServer /\ [][NextServer]_vars

-----------------------------------------------------------------------------
(* Properties of Destination.onEvent *)

Started == pc \in {"awaiting", "fulfilled", "rejected"} /\ getSubscriptions(settings).kind = "return"

SubIds == 1..Len(subs)

\* subscription i has a string filter that the event matches
Matched(i) == subscriptions[i].subscribe.isString /\ subs[i].isSubscribed

UnknownSlug(i) == subscriptions[i].partnerAction \notin actions

\* the number of results of the subscriptions declared before subscription i
RECURSIVE Offset(_)
Offset(i) == IF i <= 1 THEN 0 ELSE Offset(i - 1) + Len(subs[i - 1].results.list)

\* the position of subscription i in the order of settlement (0: not settled)
RECURSIVE PositionIn(_, _)
PositionIn(order, i) ==
    IF order = <<>> THEN 0
    ELSE IF order[Len(order)] = i THEN Len(order)
    ELSE PositionIn(SubSeq(order, 1, Len(order) - 1), i)

\* C1 (as stated): the promise returned by onEvent is never rejected, whatever the
\* outcome of each subscription.
C1_NeverRejected == pc # "rejected"

\* C1 (amended): onEvent is fulfilled with a result list only when no subscription's
\* chain throws. A non-string subscribe value and a filter that does not match resolve
\* to a result; a matching subscription with an unknown action slug, an action
\* execution that throws, or a subscriptions string that is not JSON make the promise
\* of onEvent reject, with the error of the failure.
C1_RejectsWhenAChainThrows ==
    /\ pc = "fulfilled" =>
          /\ returned.kind = "return"
          /\ \A i \in SubIds : ~(Matched(i) /\ UnknownSlug(i)) /\ subs[i].error = "none"
    /\ pc = "rejected" =>
          /\ returned.kind = "throw"
          /\ \/ getSubscriptions(settings).kind = "throw" /\ returned.error.name = "SyntaxError"
             \/ \E i \in SubIds :
                   /\ Matched(i)
                   /\ subs[i].state = "rejected"
                   /\ returned.error.name = subs[i].error
                   /\ \/ UnknownSlug(i) /\ subs[i].error = "BadRequest"
                      \/ ~UnknownSlug(i) /\ subs[i].error \in ActionErrors
    /\ Started => \A i \in SubIds : ~Matched(i) => subs[i].state = "fulfilled"

C1_Witness ==
    /\ pc = "rejected"
    /\ \E i \in SubIds : subs[i].error \in ActionErrors /\ returned.error.name = subs[i].error
    /\ \E j \in SubIds : ~Matched(j)

\* C2 (as stated): when the promise of onEvent settles, no onSubscription call of the
\* event is still pending.
C2_SettlesAfterEverySubscription ==
    pc \in {"fulfilled", "rejected"} => \A i \in SubIds : subs[i].state # "running"

\* C2 (amended): onEvent does not fulfil before every subscription's processing has
\* settled, and each has then fulfilled; it rejects only once a subscription has
\* rejected (or getSubscriptions has thrown), and other onSubscription calls may then
\* still be pending.
C2_FulfilsAfterEverySubscription ==
    /\ pc = "fulfilled" =>
          /\ \A i \in SubIds : subs[i].state = "fulfilled"
          /\ Len(settled) = Len(subs)
    /\ (pc = "rejected" /\ getSubscriptions(settings).kind = "return") =>
          \E i \in SubIds : subs[i].state = "rejected" /\ PositionIn(settled, i) > 0

C2_Witness ==
    /\ pc = "fulfilled"
    /\ \E i, j \in SubIds : i # j /\ subs[i].invoked /\ subs[j].invoked

C4_OthersResultsReturned ==
    (/\ pc \in {"fulfilled", "rejected"}
     /\ \E i \in SubIds : Matched(i) /\ UnknownSlug(i)
     /\ \A i \in SubIds : subs[i].state # "running")
    => pc = "fulfilled"

\* C4 (amended): a matching subscription that names an unknown slug fails with a
\* BadRequest, no action's execute is invoked for it, and the other subscriptions'
\* actions are still invoked; but the failure rejects onEvent's Promise.all, so onEvent
\* rejects with that BadRequest and returns no results for the event.
C4_UnknownSlugRejectsWithBadRequest ==
    Started =>
        \A i \in SubIds :
            (Matched(i) /\ UnknownSlug(i)) =>
                /\ subs[i].state = "rejected"
                /\ subs[i].error = "BadRequest"
                /\ ~subs[i].invoked
                /\ pc # "fulfilled"
                /\ pc = "rejected" => returned = Throw("BadRequest", "subscription failed")
                /\ \A j \in SubIds : (Matched(j) /\ ~UnknownSlug(j)) => subs[j].invoked

C4_Witness ==
    /\ pc = "rejected"
    /\ returned.error.name = "BadRequest"
    /\ \E i, j \in SubIds :
          /\ Matched(i) /\ UnknownSlug(i)
          /\ subs[j].invoked /\ subs[j].state = "fulfilled"

\* C5: when onEvent returns, its result list is the concatenation of the
\* subscriptions' result lists in the order the subscriptions were declared, whatever
\* the order in which they completed.
C5_ResultsInDeclaredOrder ==
    pc = "fulfilled" =>
        /\ Len(returned.value) = Offset(Len(subs) + 1)
        /\ \A i \in SubIds : \A k \in 1..Len(subs[i].results.list) :
              returned.value[Offset(i) + k] = subs[i].results.list[k]

\* the second subscription completed before the first, with different results
C5_Witness ==
    /\ pc = "fulfilled"
    /\ Len(subs) = 2
    /\ settled = <<2, 1>>
    /\ subs[1].results # subs[2].results
    /\ subs[1].invoked /\ subs[2].invoked

\* C6: for a subscription whose filter does not match the event the action is never
\* invoked, and the subscription contributes exactly one result, whose output is
\* 'not subscribed'.
C6_NotSubscribed ==
    Started =>
        \A i \in SubIds :
            (subscriptions[i].subscribe.isString /\ ~isSubscribed(subscriptions[i], event)) =>
                /\ ~subs[i].invoked
                /\ subs[i].state = "fulfilled"
                /\ subs[i].results = Results(<<StepResult("not subscribed")>>)
                /\ pc = "fulfilled" =>
                      /\ returned.value[Offset(i) + 1].output = "not subscribed"
                      /\ Offset(i + 1) = Offset(i) + 1

\* type = "identify" on a track event, beside a subscription that ran its action
C6_Witness ==
    /\ pc = "fulfilled"
    /\ event.type = S_track
    /\ \E i \in SubIds :
          subscriptions[i].subscribe = [isString |-> TRUE, source |-> SrcTypeIdentify]
    /\ \E j \in SubIds : subs[j].invoked

\* the calls of onComplete made for subscription i
StatsOf(i) == SelectSeq(stats, LAMBDA r : r.sub = i)

\* C7: onComplete is called exactly once for every subscription that has been
\* processed, whatever its outcome, with state 'done' or 'errored', with the event,
\* mapping and settings of the subscription as input, and with the captured results
\* (null when none were captured) as output.
C7_OnCompleteOnce ==
    Started =>
        /\ Len(stats) = Len(settled)
        /\ \A i \in SubIds :
              /\ Len(StatsOf(i)) = IF subs[i].state = "running" THEN 0 ELSE 1
              /\ \A k \in 1..Len(StatsOf(i)) :
                    LET r == StatsOf(i)[k]
                    IN  /\ r.state \in {"done", "errored"}
                        /\ r.action = subscriptions[i].partnerAction
                        /\ r.subscribe = subscriptions[i].subscribe
                        /\ r.input.event = event
                        /\ r.input.settings = destinationSettings
                        /\ r.input.mapping = IF subscriptions[i].mapping = "undefined"
                                             THEN "{}" ELSE subscriptions[i].mapping
                        /\ r.output = subs[i].results

\* every outcome at once would need five subscriptions; here an action that threw and
\* a subscription that was not subscribed, both reported
C7_Witness ==
    /\ Len(stats) = 2
    /\ \E i, j \in SubIds :
          /\ subs[i].error \in ActionErrors /\ StatsOf(i)[1].output = Null
          /\ ~Matched(j) /\ StatsOf(j)[1].state = "errored"

\* the subscribe strings of the inputs that are not FQL
Malformed(subscription) ==
    /\ subscription.subscribe.isString
    /\ subscription.subscribe.source \in {SrcContainsEvent, SrcUnclosed}

\* C8: of two subscriptions, the first malformed and the second well-formed and
\* matching, the malformed one does not have its action invoked and reports the
\* outcome of a filter that failed to parse, and the well-formed one reports its
\* action's output.
C8_MalformedBesideWellFormed ==
    (/\ Started
     /\ Len(subs) = 2
     /\ Malformed(subscriptions[1])
     /\ ~Malformed(subscriptions[2]) /\ Matched(2) /\ ~UnknownSlug(2))
    => /\ ~subs[1].invoked
       /\ subs[1].results = Results(<<StepResult("not subscribed")>>)
       /\ subs[2].invoked
       /\ pc = "fulfilled" =>
             returned.value = <<StepResult("not subscribed")>> \o subs[2].results.list

\* C13: the subscriptions of one event share no mutable state: processing a
\* subscription writes to no object that the processing of another subscription, or
\* a later onEvent call, can read. The one object of the destination that every
\* subscription's action can reach is Destination.responses, so nothing is ever
\* written to it.
C13_NoSharedMutableState == responses = <<>>

\* C14: the settings onEvent hands to the actions hold neither the key
\* subscriptions nor the key subscription of the incoming settings, and hold every
\* other key of the incoming settings with its value.
C14_NoSubscriptionKeys ==
    Started =>
        /\ "subscriptions" \notin DOMAIN destinationSettings
        /\ "subscription" \notin DOMAIN destinationSettings
        /\ \A key \in DOMAIN settings \ {"subscriptions", "subscription"} :
              key \in DOMAIN destinationSettings
              /\ destinationSettings[key] = settings[key]

-----------------------------------------------------------------------------
(* Properties of parseFql *)

IsErrorVariant(value) == "error" \in DOMAIN value

\* C9: parseFql never throws: whatever is thrown while lexing, normalizing or
\* parsing, parseFql returns, and what it returns is then the error variant.
C9_ParseFqlNeverThrows ==
    fqlPc = "returned" =>
        /\ fqlResult.kind = "return"
        /\ parseFqlBody(fql).kind = "throw" =>
              /\ IsErrorVariant(fqlResult.value)
              /\ fqlResult.value.error = parseFqlBody(fql).error

\* a TypeError of the parser (an unclosed parenthesis) came back as the error variant
C9_Witness ==
    /\ fqlPc = "returned"
    /\ ~fql.lexError
    /\ IsErrorVariant(fqlResult.value)
    /\ fqlResult.value.error.name = "TypeError"

\* C10: contains(event), a call without its second argument, makes parseFql return
\* the error variant.
C10_MissingSecondArgument ==
    (fqlPc = "returned" /\ ~fql.lexError /\ fql.tokens = SrcContainsEvent.tokens)
    => IsErrorVariant(fqlResult.value)

-----------------------------------------------------------------------------
(* Properties of the operations server *)

CredentialsTested == request.route = "/test-credentials" /\ srvPc \in {"tested", "responded"}
                     /\ tested # NoOutcome

CredentialsAnswered == CredentialsTested /\ srvPc = "responded"

SettingsInvalid == request.destination.settingsSchema /\ request.validation = "invalid"

ExtensionThrows ==
    request.destination.testAuthentication /\ request.destination.extendRequest = "throws"

RequestFails == request.destination.testAuthentication /\ request.call # "resolves"

\* C15 (as stated): whatever fails on the credential-test path - the validation of the
\* settings, the request extension, the testAuthentication request - testAuthentication
\* fails with 'Credentials are invalid' and /test-credentials answers with that error.
C15_AlwaysGeneric ==
    /\ (CredentialsTested /\ tested.kind = "throw")
       => tested.error.message = "Credentials are invalid"
    /\ (CredentialsAnswered /\ tested.kind = "throw")
       => res.body.error = "Credentials are invalid"

\* C15 (amended): a testAuthentication request that rejects or times out is reported
\* as 'Credentials are invalid' by testAuthentication and by /test-credentials. Settings
\* that fail their schema make testAuthentication reject with the validation error
\* itself, which /test-credentials answers with 'Credentials are invalid' and the
\* message of every field; an error thrown by the request extension is the error of
\* testAuthentication, and its message the error of the /test-credentials response.
C15_RequestFailureIsGeneric ==
    /\ CredentialsTested =>
          IF SettingsInvalid THEN tested.kind = "throw" /\ tested.error = AggregateAjvError
          ELSE IF ExtensionThrows THEN tested.kind = "throw" /\ tested.error = ExtensionError
          ELSE IF RequestFails
          THEN tested.kind = "throw" /\ tested.error.message = "Credentials are invalid"
          ELSE tested.kind = "return"
    /\ CredentialsAnswered =>
          /\ res.status = 200
          /\ IF SettingsInvalid
             THEN /\ res.body.error = "Credentials are invalid"
                  /\ res.body.fields[<<"a", "p", "i", "K", "e", "y">>]
                        = AggregateAjvError.errors[1].message
             ELSE IF ExtensionThrows
             THEN res.body = [ok |-> FALSE, error |-> ExtensionError.message]
             ELSE IF RequestFails
             THEN res.body = [ok |-> FALSE, error |-> "Credentials are invalid"]
             ELSE res.body = [ok |-> TRUE]

\* the testAuthentication request timed out and the answer is 'Credentials are invalid'
C15_Witness ==
    /\ CredentialsAnswered
    /\ ~SettingsInvalid /\ ~ExtensionThrows /\ request.call = "timeout"
    /\ tested.kind = "throw"
    /\ res = Json(200, [ok |-> FALSE, error |-> "Credentials are invalid"])

\* the /autocomplete request got as far as resolving the dynamic field
DynamicFieldResolved ==
    /\ request.route = "/autocomplete" /\ srvPc = "responded"
    /\ request.fieldIsString /\ request.settings # "fetch fails"
    /\ request.found /\ request.actionKnown

Returned(outcome) == outcome.kind = "return" /\ outcome.result.object

-----------------------------------------------------------------------------
(* Properties of parseFql on well-formed expressions *)

Parsed == fqlPc = "returned" /\ "expr" \in DOMAIN fql

\* the source is one comparison or one function call
IsLeafSource == Len(fql.expr.children) = 1 /\ fql.expr.children[1].kind # "scope"

TheLeaf == fql.expr.children[1]

\* properties.<name> or traits.<name>
IsPropertyField(field) == Len(field) = 2 /\ field[1] \in {S_properties, S_traits}

\* the text of a literal token: a string literal without its quotes
LiteralText(token) ==
    IF token.type = "string" THEN SubSeq(token.value, 2, Len(token.value) - 1)
    ELSE token.value

\* what parseFql returns for a source of one condition
TheCondition == fqlResult.value.children[1]

\* the coerced value of a value token: the text of a string literal without its
\* quotes, the number of a number token, the boolean of the idents true and false,
\* and the raw text of any other token
Coerced(token) ==
    IF token.type = "string" THEN JsString(LiteralText(token))
    ELSE IF token.type = "number" THEN JsNumber(NumberOf(token.value))
    ELSE IF token.type = "ident" /\ token.value \in {S_true, S_false}
    THEN JsBoolean(token.value)
    ELSE JsString(token.value)

\* C11: properties.<name> or traits.<name> compared with `!= null` parses to an
\* event-property condition of that name with operator exists and no value, with
\* `= null` to operator not_exists and no value, and with any other operator and
\* value to a condition that keeps the written operator and carries the value.
C11_NullSugar ==
    (Parsed /\ IsLeafSource /\ TheLeaf.kind = "compare" /\ IsPropertyField(TheLeaf.field))
    => /\ fqlResult.kind = "return"
       /\ ~IsErrorVariant(fqlResult.value)
       /\ Len(fqlResult.value.children) = 1
       /\ TheCondition.type = "event-property"
       /\ TheCondition.name = TheLeaf.field[2]
       /\ IF TheLeaf.value.value = S_null /\ TheLeaf.operator = <<"!", "=">>
          THEN TheCondition.operator = S_exists /\ "value" \notin DOMAIN TheCondition
          ELSE IF TheLeaf.value.value = S_null /\ TheLeaf.operator = <<"=">>
          THEN TheCondition.operator = S_not_exists /\ "value" \notin DOMAIN TheCondition
          ELSE /\ TheCondition.operator = TheLeaf.operator
               /\ "value" \in DOMAIN TheCondition
               /\ TheCondition.value = Coerced(TheLeaf.value)

\* traits.age = null was parsed to not_exists
C11_Witness ==
    /\ Parsed /\ IsLeafSource
    /\ TheLeaf = Comparison(<<S_traits, S_age>>, <<"=">>, Tok("null", S_null))
    /\ TheCondition = EventPropertyExists(S_age, S_not_exists)

IsMatchCall(leaf) ==
    /\ leaf.kind = "call" /\ leaf.name = S_match
    /\ leaf.field = <<S_event>> \/ IsPropertyField(leaf.field)

\* the condition kind of a function call: event for the field event, event-property
\* named by the text after the first dot for properties.x and traits.x
CallKindAsWritten(condition, leaf) ==
    IF leaf.field = <<S_event>>
    THEN condition.type = "event" /\ "name" \notin DOMAIN condition
    ELSE condition.type = "event-property" /\ condition.name = leaf.field[2]

\* C12 (as stated): in match(field, literal) a literal that ends with '*' gives
\* starts_with (not_starts_with after '!') and the literal without its trailing '*',
\* and a literal that starts with '*' gives ends_with (not_ends_with after '!') and
\* the literal without its leading '*'; the kind is event for the field event and
\* event-property for properties.x and traits.x.
C12_MatchWildcards ==
    (Parsed /\ IsLeafSource /\ IsMatchCall(TheLeaf))
    => /\ ~IsErrorVariant(fqlResult.value)
       /\ Len(fqlResult.value.children) = 1
       /\ CallKindAsWritten(TheCondition, TheLeaf)
       /\ EndsWith(TheLeaf.literal, <<"*">>) =>
             /\ TheCondition.operator =
                    (IF TheLeaf.negate THEN S_not_starts_with ELSE S_starts_with)
             /\ TheCondition.value = JsString(SliceDropLast(TheLeaf.literal))
       /\ StartsWith(TheLeaf.literal, <<"*">>) =>
             /\ TheCondition.operator =
                    (IF TheLeaf.negate THEN S_not_ends_with ELSE S_ends_with)
             /\ TheCondition.value = JsString(Tail(TheLeaf.literal))

\* C12 (amended): the trailing '*' decides: a literal that ends with '*' gives
\* starts_with (not_starts_with after '!') and the literal without its trailing '*';
\* any other literal, one that starts with '*' among them, gives ends_with
\* (not_ends_with after '!') and the literal without its first character; the kind
\* is event for the field event and event-property for properties.x and traits.x.
C12_TrailingWildcardDecides ==
    (Parsed /\ IsLeafSource /\ IsMatchCall(TheLeaf))
    => /\ ~IsErrorVariant(fqlResult.value)
       /\ Len(fqlResult.value.children) = 1
       /\ CallKindAsWritten(TheCondition, TheLeaf)
       /\ IF EndsWith(TheLeaf.literal, <<"*">>)
          THEN /\ TheCondition.operator =
                      (IF TheLeaf.negate THEN S_not_starts_with ELSE S_starts_with)
               /\ TheCondition.value = JsString(SliceDropLast(TheLeaf.literal))
          ELSE /\ TheCondition.operator =
                      (IF TheLeaf.negate THEN S_not_ends_with ELSE S_ends_with)
               /\ TheCondition.value = JsString(Tail(TheLeaf.literal))

\* !match(event, "vid*") was parsed to the event condition not_starts_with "vid"
C12_Witness ==
    /\ Parsed /\ IsLeafSource
    /\ TheLeaf = Call(S_match, TRUE, <<S_event>>, S_vid \o <<"*">>)
    /\ TheCondition = EventCondition(S_not_starts_with, JsString(S_vid))

\* the text of a dotted path: its names joined by dots
RECURSIVE JoinDots(_)
JoinDots(field) ==
    IF Len(field) = 1 THEN field[1]
    ELSE field[1] \o <<".">> \o JoinDots(Tail(field))

\* a dot token stands between two ident tokens
DotBetweenIdents(tokens) ==
    \E i \in 2..(Len(tokens) - 1) :
        /\ tokens[i].type = "dot"
        /\ tokens[i - 1].type = "ident"
        /\ tokens[i + 1].type = "ident"

\* C17: after normalization a dotted path, of two names or more, is one ident token
\* whose value is the path with its dots, no dot token is left between two ident
\* tokens, and a comparison on properties.<path> or traits.<path> parses to an
\* event-property condition whose name is everything after the first dot.
C17_DottedPathIsOneIdent ==
    (/\ Parsed /\ IsLeafSource /\ TheLeaf.kind = "compare"
     /\ Len(TheLeaf.field) >= 2)
    => /\ normalize(fql.tokens).kind = "return"
       /\ normalize(fql.tokens).value[1] = Tok("ident", JoinDots(TheLeaf.field))
       /\ ~DotBetweenIdents(normalize(fql.tokens).value)
       /\ ~IsErrorVariant(fqlResult.value)
       /\ TheCondition.type = "event-property"
       /\ TheCondition.name = JoinDots(Tail(TheLeaf.field))

\* what parse gives for a comparison or a function call written alone
LeafCondition(leaf) == parse(normalize(Append(LeafTokens(leaf), EosToken)).value).value

\* the condition follows the expression as it is written: a scope of several items
\* is a group with the scope's conditional and one child for each item, in order; a
\* scope of one item is that item's condition
RECURSIVE Conforms(_, _)
Conforms(condition, item) ==
    IF item.kind # "scope" THEN condition = LeafCondition(item)
    ELSE IF Len(item.children) = 1 THEN Conforms(condition, item.children[1])
    ELSE /\ condition.type = "group"
         /\ condition.operator = item.operator
         /\ Len(condition.children) = Len(item.children)
         /\ \A i \in 1..Len(item.children) :
               Conforms(condition.children[i], item.children[i])

\* parseFql's result follows the expression: parseFql puts a condition that is no
\* group into an 'and' group of its own
ResultConforms(value, expr) ==
    /\ ~IsErrorVariant(value)
    /\ IF value.type = "group" /\ Len(value.children) = 1
       THEN Conforms(value.children[1], expr)
       ELSE Conforms(value, expr)

IsScope(item) == item.kind = "scope"

\* a parenthesized scope holds a function call together with other conditions
HasCallAmongConditions(item) ==
    /\ IsScope(item)
    /\ Len(item.children) > 1
    /\ \E i \in 1..Len(item.children) : item.children[i].kind = "call"

\* a parenthesized scope holds another parenthesized scope
HasNestedScope(item) ==
    /\ IsScope(item)
    /\ \E i \in 1..Len(item.children) : IsScope(item.children[i])

Items == fql.expr.children

\* C18: when a parenthesized scope holds contains() or match() calls together with
\* other conditions, every condition written between its parentheses is inside the
\* condition pushed for the scope, combined by the scope's own conditional, and
\* the conditions written after its closing parenthesis are siblings of it.
C18_GroupWithCallsClosesAtItsParen ==
    (/\ Parsed
     /\ \E i \in 1..Len(Items) : HasCallAmongConditions(Items[i])
     /\ \A i \in 1..Len(Items) : ~HasNestedScope(Items[i]))
    => ResultConforms(fqlResult.value, fql.expr)

\* C19: an expression with a parenthesized group inside a parenthesized group, and
\* no function call, parses without error to a condition whose nesting follows the
\* parentheses.
C19_GroupsNest ==
    (/\ Parsed
     /\ \E i \in 1..Len(Items) :
           /\ HasNestedScope(Items[i])
           /\ \A j \in 1..Len(Items[i].children) : Items[i].children[j].kind # "call"
           /\ \A j \in 1..Len(Items[i].children) :
                 IsScope(Items[i].children[j]) =>
                    \A k \in 1..Len(Items[i].children[j].children) :
                        Items[i].children[j].children[k].kind # "call"
     /\ \A i \in 1..Len(Items) : Items[i].kind # "call")
    => ResultConforms(fqlResult.value, fql.expr)

\* every node of type group in the tree has at least two children
RECURSIVE GroupsHaveSiblings(_)
GroupsHaveSiblings(condition) ==
    condition.type = "group" =>
        /\ Len(condition.children) > 1
        /\ \A i \in 1..Len(condition.children) : GroupsHaveSiblings(condition.children[i])

\* C20 (as stated): in every condition tree returned by parse and by parseFql, every
\* node of type group has at least two children.
C20_EveryGroupHasSiblings ==
    (Parsed /\ ~IsErrorVariant(fqlResult.value)) => GroupsHaveSiblings(fqlResult.value)

\* what parse returned for the source
Ast == parse(normalize(fql.tokens).value).value

\* the source is one condition, bare or in one pair of parentheses
IsOneCondition(expr) ==
    /\ Len(expr.children) = 1
    /\ \/ ~IsScope(expr.children[1])
       \/ Len(expr.children[1].children) = 1 /\ ~IsScope(expr.children[1].children[1])

\* C20 (amended): in every condition tree returned by parse every node of type
\* group has at least two children, and a scope with exactly one condition yields
\* that condition itself, unwrapped. parseFql returns parse's tree when it is a group
\* and otherwise puts parse's single condition into an 'and' group of one child: in
\* the tree parseFql returns, every group below the top one has at least two children.
C20_GroupsBelowTheTopHaveSiblings ==
    (Parsed /\ ~IsErrorVariant(fqlResult.value))
    => /\ GroupsHaveSiblings(Ast)
       /\ IsOneCondition(fql.expr) => Ast.type # "group"
       /\ fqlResult.value.type = "group"
       /\ IF Ast.type = "group" THEN fqlResult.value = Ast
          ELSE fqlResult.value = GroupCondition(S_and, <<Ast>>)
       /\ \A i \in 1..Len(fqlResult.value.children) :
             GroupsHaveSiblings(fqlResult.value.children[i])

\* (type = "track") was parsed to an 'and' group whose one child is the bare condition
C20_Witness ==
    /\ Parsed
    /\ fql.expr = Scope(S_and, <<Scope(S_and,
                        <<Comparison(<<S_type>>, <<"=">>, Tok("string", Quoted(S_track)))>>)>>)
    /\ fqlResult.value = GroupCondition(S_and,
                             <<EventTypeCondition(<<"=">>, JsString(S_track))>>)

-----------------------------------------------------------------------------
(* Properties of parseFql on scopes with mixed conditionals *)

ParsedMixed == fqlPc = "returned" /\ "items" \in DOMAIN fql

\* the last conditional written in the scope, 'and' when none is written
RECURSIVE LastConditional(_)
LastConditional(joins) ==
    IF joins = <<>> THEN S_and
    ELSE IF joins[Len(joins)] # NoConditional THEN joins[Len(joins)]
    ELSE LastConditional(SubSeq(joins, 1, Len(joins) - 1))

\* both conditionals are written in the scope
MixesConditionals(joins) ==
    /\ \E i \in 1..Len(joins) : joins[i] = S_and
    /\ \E i \in 1..Len(joins) : joins[i] = S_or

-----------------------------------------------------------------------------
(* Properties of the values of comparisons *)

\* the source is one comparison on type, event, properties.<name> or traits.<name>
\* whose condition stores a value
ComparisonWithValue ==
    /\ Parsed /\ IsLeafSource /\ TheLeaf.kind = "compare"
    /\ Len(TheLeaf.field) <= 2
    /\ ~IsErrorVariant(fqlResult.value)
    /\ "value" \in DOMAIN TheCondition

\* C22 (as stated): the value stored in a parsed comparison condition, of kind
\* event-type, event or event-property, is the coerced value of its value token.
C22_ValueIsCoerced ==
    ComparisonWithValue => TheCondition.value = Coerced(TheLeaf.value)

\* C22 (amended): an event-property condition stores the coerced value of its value
\* token; an event-type or event condition stores that coerced value converted to a
\* string, so a number token and the idents true and false give their text.
C22_EventValuesAreStrings ==
    ComparisonWithValue
    => IF TheCondition.type = "event-property"
       THEN TheCondition.value = Coerced(TheLeaf.value)
       ELSE /\ TheCondition.type \in {"event-type", "event"}
            /\ TheCondition.value = JsString(Coerced(TheLeaf.value).v)

\* type = 042 was parsed to an event-type condition whose value is the string "42"
C22_Witness ==
    /\ ComparisonWithValue
    /\ TheLeaf = Comparison(<<S_type>>, <<"=">>, Tok("number", <<"0", "4", "2">>))
    /\ TheCondition = EventTypeCondition(<<"=">>, JsString(<<"4", "2">>))

-----------------------------------------------------------------------------
(* Properties of the state and output given to the observer *)

\* the subscription matched, its action was invoked and the execution returned
ActionReturned(i) ==
    Matched(i) /\ subs[i].invoked /\ subs[i].state = "fulfilled"

\* the processing of the subscription threw
ProcessingThrew(i) == subs[i].state = "rejected"

\* C23: the state given to the observer is 'done' exactly when the subscription
\* matched, its action was invoked and the execution returned without throwing, and
\* 'errored' in every other case, a normal return with 'not subscribed' or 'invalid
\* subscription' among them; the output is null exactly when the processing threw.
C23_DoneOnlyAfterTheAction ==
    Started =>
        \A i \in SubIds :
            \A k \in 1..Len(StatsOf(i)) :
                LET r == StatsOf(i)[k]
                IN  /\ r.state = (IF ActionReturned(i) THEN "done" ELSE "errored")
                    /\ (r.output = Null) <=> ProcessingThrew(i)
                    /\ (~ProcessingThrew(i) /\ ~ActionReturned(i)) =>
                           /\ r.state = "errored"
                           /\ r.output \in {Results(<<StepResult("not subscribed")>>),
                                            Results(<<StepResult("invalid subscription")>>)}

\* an invalid subscription reported as errored with its result, beside an action
\* that returned and was reported as done
C23_Witness ==
    /\ pc = "fulfilled"
    /\ \E i, j \in SubIds :
          /\ ~subscriptions[i].subscribe.isString
          /\ StatsOf(i)[1].state = "errored"
          /\ StatsOf(i)[1].output = Results(<<StepResult("invalid subscription")>>)
          /\ ActionReturned(j)
          /\ StatsOf(j)[1].state = "done"

-----------------------------------------------------------------------------
(* Termination of parseFql *)

\* the tokens a call of parse has still to read: the rest of its stream and the
\* token it holds (the token of its while loop, or the groupToken of its group loop)
Remaining(f) ==
    Len(f.tokens)
    + (IF f.mode = "loop" /\ f.token # Undefined THEN 1
       ELSE IF f.mode = "collect" /\ f.groupToken # Undefined THEN 1
       ELSE 0)

\* every loop iteration that does not end parseFql consumes: normalize's index
\* grows, the parse that iterates has fewer tokens left to read, and a parse to
\* which a group's parse returns has no more tokens left than when it called
IterationConsumes ==
    (fqlPc = "running" /\ fqlPc' = "running" /\ run' # run) =>
        IF run.phase = "normalize"
        THEN run'.phase = "normalize" => run'.index > run.index
        ELSE /\ Len(run'.stack) >= Len(run.stack) =>
                   Remaining(run'.stack[Len(run.stack)])
                       < Remaining(run.stack[Len(run.stack)])
             /\ Len(run'.stack) < Len(run.stack) =>
                   Remaining(run'.stack[Len(run'.stack)])
                       <= Remaining(run.stack[Len(run'.stack)])

\* parseFql has returned a group condition or the error variant, the ones the
\* parser gives for the token stream
ReturnsGroupOrError ==
    fqlPc = "returned" =>
        /\ fqlResult.kind = "return"
        /\ IsErrorVariant(fqlResult.value) \/ fqlResult.value.type = "group"
        /\ fqlResult = parseFql(fql)

\* a bound on the steps a call of parse has still to take, from the tokens it has
\* left (and, while it collects a group, the tokens collected so far, which the
\* parse of the group will read again)
FrameVariant(f) ==
    IF f.mode = "collect"
    THEN (Remaining(f) + Len(f.groupTokens) + 2) * (Remaining(f) + Len(f.groupTokens) + 2)
         - Len(f.groupTokens)
    ELSE (Remaining(f) + 1) * (Remaining(f) + 1) + 1

RECURSIVE StackVariant(_)
StackVariant(stack) ==
    IF stack = <<>> THEN 0 ELSE FrameVariant(Head(stack)) + StackVariant(Tail(stack))

\* a bound on the steps parseFql has still to take
Variant(r) ==
    IF r.phase = "normalize"
    THEN (Len(r.tokens) + 1) * (Len(r.tokens) + 1) + 2 + (Len(r.tokens) + 1 - r.index)
    ELSE StackVariant(r.stack)

\* every step of a running parseFql lowers the bound, which is never negative
VariantDecreases ==
    (fqlPc = "running" /\ fqlPc' = "running" /\ run' # run) =>
        /\ Variant(run') < Variant(run)
        /\ Variant(run') >= 0

\* a called parseFql that has not returned can take its next step
NeverStuck ==
    fqlPc = "running" =>
        \/ run.phase = "normalize"
        \/ /\ run.phase = "parse"
           /\ run.stack # <<>>
           /\ run.stack[Len(run.stack)].mode \in {"loop", "collect"}
           /\ \A d \in 1..(Len(run.stack) - 1) : run.stack[d].mode = "call"

\* C24: parseFql terminates on every finite token stream, with or without an eos
\* token, with or without an unmatched parenleft: every iteration of the loops of
\* normalize and parse and of the group-collecting loop consumes at least one token
\* or ends in a caught error, every step lowers a bound on the steps still to take,
\* the next step can always be taken, and parseFql returns a group condition or the
\* error variant.
C24_ParseFqlTerminates ==
    /\ [][IterationConsumes /\ VariantDecreases]_vars
    /\ []NeverStuck
    /\ []ReturnsGroupOrError

\* the stream `( type` without eos, an unmatched parenleft, ended in the error variant
C24_Witness ==
    /\ fqlPc = "returned"
    /\ fql.tokens = <<Tok("parenleft", <<"(">>), Tok("ident", S_type)>>
    /\ IsErrorVariant(fqlResult.value)
    /\ fqlResult.value.error.name = "TypeError"

-----------------------------------------------------------------------------
(* Properties of the values parseFql returns *)

\* the tokens of which no condition is made: an ident with an unrecognized prefix,
\* an operator, a value, a conditional, eos
NoConditionTokens ==
    {Tok("ident", S_age), Tok("operator", <<"=">>), Tok("string", Quoted(S_track)),
     Tok("conditional", S_and), EosToken}

\* the source yields zero conditions: it is empty, or holds only identifiers with an
\* unrecognized prefix and their operators and values
YieldsNoCondition(source) ==
    /\ ~source.lexError
    /\ \A i \in 1..Len(source.tokens) : source.tokens[i] \in NoConditionTokens

\* C25: every non-error value returned by parseFql is a group with at least one
\* child, never undefined and never a group without children; a source that yields
\* zero conditions, the empty string or only identifiers with an unrecognized prefix
\* with their operators and values, makes parseFql return the error variant.
C25_NonErrorIsNonEmptyGroup ==
    fqlPc = "returned" =>
        /\ fqlResult.kind = "return"
        /\ fqlResult.value # UndefinedNode
        /\ ~IsErrorVariant(fqlResult.value) =>
              /\ fqlResult.value.type = "group"
              /\ Len(fqlResult.value.children) >= 1
        /\ YieldsNoCondition(fql) => IsErrorVariant(fqlResult.value)

\* age = "track", an identifier with an unrecognized prefix, gave the error variant
C25_Witness ==
    /\ fqlPc = "returned"
    /\ fql.tokens = <<Tok("ident", S_age), Tok("operator", <<"=">>),
                      Tok("string", Quoted(S_track)), EosToken>>
    /\ IsErrorVariant(fqlResult.value)
    /\ fqlResult.value.error.name = "TypeError"

-----------------------------------------------------------------------------
(* Properties of match() on literals without a trailing wildcard *)

\* the source is one match() call, on event or a property, whose literal does not
\* end with '*'
MatchWithoutTrailingWildcard ==
    /\ Parsed /\ IsLeafSource /\ IsMatchCall(TheLeaf)
    /\ ~EndsWith(TheLeaf.literal, <<"*">>)

\* C26: in match(field, literal) a literal that does not end with '*', with no
\* wildcard at all or with one only in the middle or at the start, is accepted
\* without error and gives ends_with (not_ends_with after '!') whose value is the
\* literal without its first character, whether or not that character is '*'.
C26_NoTrailingWildcardIsEndsWith ==
    MatchWithoutTrailingWildcard
    => /\ fqlResult.kind = "return"
       /\ ~IsErrorVariant(fqlResult.value)
       /\ fqlResult.value.children
              = <<[TheCondition EXCEPT
                      !.operator = IF TheLeaf.negate THEN S_not_ends_with ELSE S_ends_with,
                      !.value = JsString(SubSeq(TheLeaf.literal, 2, Len(TheLeaf.literal)))]>>

\* match(event, "v*d"), a wildcard in the middle, was parsed to ends_with "*d"
C26_Witness ==
    /\ MatchWithoutTrailingWildcard
    /\ TheLeaf = Call(S_match, FALSE, <<S_event>>, <<"v", "*", "d">>)
    /\ TheCondition = EventCondition(S_ends_with, JsString(<<"*", "d">>))

====
